---- MODULE Spec2Model ----
(***************************************************************************)
(* A model of the Australian federal parliament transcript pipeline:       *)
(*   - prepare_transcripts.py  __main__: the normalization orchestrator    *)
(*     (worker pool, completion-order consumption, surrogate keys);        *)
(*   - download_transcripts.py retrieve_transcripts: the retrieval worker  *)
(*     (per-item transaction, failure counter, circuit breaker);           *)
(*   - download_transcripts.py init_and_refresh_sitemap: the discovery     *)
(*     crawler (sizing guard, init and refresh loops, checkpoint).         *)
(* Each subsystem has its own specification (SpecOrch, SpecRetr,           *)
(* SpecDisc); the variables of the other subsystems stay at their initial  *)
(* values.                                                                 *)
(***************************************************************************)
EXTENDS Integers, Sequences, FiniteSets, TLC

(***************************************************************************)
(* Bounds of the model.                                                    *)
(***************************************************************************)
\* rows returned by the orchestrator's SELECT (prepare_transcripts.py:520)
MaxTranscripts == 4
\* executions of prepare_transcripts.py over the same transcript_db
MaxRuns == 2
\* stale rows of hansard_transcript at the start of a retrieval run
MaxItems == 11
\* shards the remote index lists
MaxShards == 2
\* calls of init_and_refresh_sitemap
MaxCalls == 2
\* instants per day the model distinguishes, plus one (see Time)
DayTicks == 4

(***************************************************************************)
(* Program constants.  The pool size and the in-flight threshold are       *)
(* scaled down (8 -> 2, 500 -> 3) keeping threshold > pool size, so that   *)
(* a handful of transcripts reaches the cf.wait branch.                    *)
(***************************************************************************)
\* cf.ProcessPoolExecutor(8)
PoolWorkers == 2
\* if len(tasks_in_flight) > 500
InFlightLimit == 3

\* if len(sitemaps) < 2217, scaled down to the size of the modelled index
SitemapFloor == 2
\* refresh_delta = datetime.timedelta(days=3)
RefreshDays == 3
\* if failures >= 10
FailureLimit == 10

\* Python's None where a string is expected
Null == "<None>"

(***************************************************************************)
(* Small helpers.                                                          *)
(***************************************************************************)
Max(S) == CHOOSE m \in S : \A y \in S : y <= m
Min(S) == CHOOSE m \in S : \A y \in S : m <= y

VARIABLES
    \* ---- normalization orchestrator (prepare_transcripts.py __main__) ----
    transcripts,      \* rows of the SELECT ... order by url
    orchPc,           \* position of the script
    rowIdx,           \* position of the for loop over transcripts
    tasks_in_flight,  \* the set of futures not yet collected
    completed,        \* the set cf.wait returned, not yet iterated
    taskState,        \* per submitted task: "none" | "queued" | "running" | "finished"
    session_id,       \* next surrogate key of a session
    next_debate,      \* next surrogate key of a debate
    processed_db,     \* oz_federal_hansard.db as the script's connection sees it
    corpus,           \* oz_federal_hansard.db as committed (what a reader sees)
    committedCorpora, \* history: the corpora that completed runs committed
    previousCorpus,   \* history: the committed corpus the current run started on
    runNo,            \* history: number of the current run
    \* ---- retrieval worker (download_transcripts.py retrieve_transcripts) ----
    hansard_transcript, \* the committed table, url -> row
    siteShift,        \* input: which page the site serves for which url
    retrPc,           \* "start" | "loop" | "done" | "halted" (break) | "aborted"
    to_retrieve,      \* the list of the SELECT ... order by lastmod
    itemIdx,          \* position of the for loop over to_retrieve
    failures,         \* the run-wide failure counter
    linkBound,        \* whether the local transcript_link has been assigned
    house,            \* the local house (Null: not yet assigned)
    clock,            \* the next value of timestamp_now()
    outcomes,         \* history: "ok" | "failed" per item started, in order
    lastFailStep,     \* history: the step at which the last failure was raised
    fetchLog,         \* history: the urls whose reference page the run requested, in order
    \* ---- discovery crawler (download_transcripts.py init_and_refresh_sitemap) ----
    remote,           \* input: the index the site serves during the current call
    sitemap,          \* the committed sitemap table, url -> row
    sitemapTxn,       \* the sitemap table as the script's connection sees it
    txnOpen,          \* whether "begin" was executed and not yet "commit"
    process_data,     \* the committed process_data table, key -> value
    discPc,           \* position of init_and_refresh_sitemap
    sitemaps,         \* the local list of shard names read from the index root
    previously_retrieved, \* the local set of source_sitemap values
    shardIdx,         \* position of the loop over reversed(sitemaps)
    entryIdx,         \* position of the loop over the entries of the fetched shard
    max_lastmod,      \* the local max_lastmod of the refresh loop
    reference_date,   \* the local reference_date
    calls,            \* history: number of calls of init_and_refresh_sitemap
    shardFetches,     \* history: the shards fetched, in order
    visitLog,         \* history: the shard visits that were committed
    lostWrites,       \* history: rows written by the visit the last interruption cut
    before,           \* history: the store, the index and the position when the call began
    refreshFetches,   \* history: the shards the refresh loop of this call fetched, in order
    \* ---- markup normalizer (prepare_transcripts.py process_xml_transcript) ----
    xml_root,         \* input: the element tree ET.fromstring(xml_str) yields
    normPc,           \* "parsed" | "walked" | "raised" | "inserted"
    walked,           \* the 5-tuple process_xml_transcript returned
    detail_db,        \* the tables after insert_processed_xml_transcript_detail
    \* ---- legacy dialect (prepare_transcripts.py process_sgml_transcript) ----
    sgml_str,              \* input: the document, a sequence of symbols
    sgmlPc,                \* "start" | "chopped" | "removed" | "transformed" | "returned" | "raised"
    remove_doctype,        \* the local remove_doctype
    removed_unclosed_tags, \* the local removed_unclosed_tags
    transformed,           \* the local transformed
    \* ---- candidate identification (download_transcripts.py __main__) ----
    identPc,               \* "idle" | "discovery" | "identified" | "raised" | "retrieved"
    changedSinceFetch      \* history: the urls whose index entry reports a change of the
                           \* remote document made after the last fetch of their record

orchVars == <<transcripts, orchPc, rowIdx, tasks_in_flight, completed, taskState,
              session_id, next_debate, processed_db, corpus, committedCorpora, previousCorpus, runNo>>

retrVars == <<hansard_transcript, siteShift, retrPc, to_retrieve, itemIdx, failures,
              linkBound, house, clock, outcomes, lastFailStep, fetchLog>>

discVars == <<remote, sitemap, sitemapTxn, txnOpen, process_data, discPc, sitemaps,
              previously_retrieved, shardIdx, entryIdx, max_lastmod, reference_date,
              calls, shardFetches, visitLog, lostWrites, before, refreshFetches>>

normVars == <<xml_root, normPc, walked, detail_db>>

sgmlVars == <<sgml_str, sgmlPc, remove_doctype, removed_unclosed_tags, transformed>>

identVars == <<identPc, changedSinceFetch>>

vars == <<orchVars, retrVars, discVars, normVars, sgmlVars, identVars>>

\* what the actions of one subsystem leave alone
notOrch == <<retrVars, discVars, normVars, sgmlVars, identVars>>
notRetr == <<orchVars, discVars, normVars, sgmlVars, identVars>>
notDisc == <<orchVars, siteShift, retrPc, to_retrieve, itemIdx, failures, linkBound,
             house, outcomes, lastFailStep, fetchLog, normVars, sgmlVars, identVars>>
notNorm == <<orchVars, retrVars, discVars, sgmlVars, identVars>>
notSgml == <<orchVars, retrVars, discVars, normVars, identVars>>
notIdent == <<orchVars, siteShift, retrPc, to_retrieve, itemIdx, failures, linkBound,
              house, outcomes, lastFailStep, fetchLog, remote, txnOpen, process_data,
              discPc, sitemaps, previously_retrieved, shardIdx, entryIdx, max_lastmod,
              reference_date, calls, shardFetches, visitLog, lostWrites, before,
              refreshFetches, normVars, sgmlVars>>

(***************************************************************************)
(* The corpus tables created by the executescript at                       *)
(* prepare_transcripts.py:464-517.                                         *)
(***************************************************************************)
EmptyCorpus ==
    [session |-> {}, debate |-> {}, paragraph |-> {}, paragraph_enclosing_context |-> {}]

(***************************************************************************)
(* A paragraph fact as process_xml_transcript appends it to `processed`:   *)
(* the forked TranscriptContext and the flattened text.                    *)
(***************************************************************************)
Fact(titles, speaker_id, text) ==
    [debate_info     |-> [i \in 1..Len(titles) |-> [title |-> titles[i]]],
     enclosing_tags  |-> {"hansard", "debate"},
     speaker         |-> IF speaker_id = Null THEN <<>> ELSE ("name.id" :> speaker_id),
     fragment_number |-> 1,
     fragment_type   |-> "speech",
     text            |-> text]

(***************************************************************************)
(* The markup documents the orchestrator is run on.  A document is given   *)
(* by its dialect and the outcome process_xml_transcript /                 *)
(* process_sgml_transcript has on it: the paragraph facts, or an exception *)
(* (ET.fromstring raising ParseError, a missing session.header).           *)
(***************************************************************************)
DocKinds ==
    << [type |-> "xml", ignored |-> FALSE, raises |-> FALSE,
        session_info |-> [date |-> "d1", chamber |-> "House"],
        paragraphs |-> << Fact(<<"Bills">>, "ab1", "p0"),
                          Fact(<<"Bills">>, Null, "p1"),
                          Fact(<<"Questions">>, "Cd2", "p2") >>],
       [type |-> "xml", ignored |-> FALSE, raises |-> FALSE,
        session_info |-> [date |-> "d2", chamber |-> "Senate"],
        paragraphs |-> << Fact(<<"Bills", "Second Reading">>, "ab1", "q0") >>],
       [type |-> "sgml", ignored |-> FALSE, raises |-> FALSE,
        session_info |-> Null, paragraphs |-> Null],
       [type |-> "xml", ignored |-> FALSE, raises |-> FALSE,
        session_info |-> [date |-> "d3", chamber |-> "House"],
        paragraphs |-> << Fact(<<>>, Null, "r0"),
                          Fact(<<"Petitions">>, "ef3", "r1") >>],
       [type |-> "xml", ignored |-> TRUE, raises |-> FALSE,
        session_info |-> [date |-> "d4", chamber |-> "Senate"],
        paragraphs |-> << Fact(<<"Bills">>, "ab1", "s0") >>],
       [type |-> "xml", ignored |-> FALSE, raises |-> FALSE,
        session_info |-> [date |-> "d5", chamber |-> "House"],
        paragraphs |-> << >>],
       [type |-> "xml", ignored |-> FALSE, raises |-> TRUE,
        session_info |-> Null, paragraphs |-> Null],
       [type |-> "sgml", ignored |-> FALSE, raises |-> TRUE,
        session_info |-> Null, paragraphs |-> Null] >>

(***************************************************************************)
(* The batches the orchestrator is run on: n rows in ascending url order   *)
(* (url = the row's ordinal), the document of row i taken round-robin from *)
(* DocKinds starting at any offset, so every kind occurs at every ordinal. *)
(***************************************************************************)
Batch(n, shift) ==
    [i \in 1..n |->
        [url |-> i,
         transcript_pdf_url |-> i,
         doc |-> DocKinds[((i + shift) % Len(DocKinds)) + 1]]]

(***************************************************************************)
(* process_xml_transcript / process_sgml_transcript as the pool runs them: *)
(* the 5-tuple task.result() returns, or the exception it re-raises.       *)
(***************************************************************************)
TaskResult(row) ==
    IF row.doc.raises
    THEN [raised |-> TRUE]
    ELSE [raised |-> FALSE,
          url |-> row.url,
          transcript_pdf_url |-> row.transcript_pdf_url,
          transcript_type |-> row.doc.type,
          session_info |-> row.doc.session_info,
          paragraphs |-> row.doc.paragraphs]

(***************************************************************************)
(* str.upper() on the speaker identifiers that occur in the documents.     *)
(***************************************************************************)
Upper(s) ==
    CASE s = "ab1" -> "AB1"
      [] s = "Cd2" -> "CD2"
      [] s = "ef3" -> "EF3"
      [] OTHER -> s

(***************************************************************************)
(* "\n".join(c.get("title", "") or "" for c in context.debate_info)        *)
(***************************************************************************)
RECURSIVE JoinTitles(_, _)
JoinTitles(debate_info, k) ==
    IF k > Len(debate_info) THEN ""
    ELSE LET c == debate_info[k]
             t == IF "title" \in DOMAIN c /\ c["title"] # Null THEN c["title"] ELSE ""
         IN  IF k = Len(debate_info) THEN t
             ELSE t \o "\n" \o JoinTitles(debate_info, k + 1)

DebateTitle(context) == JoinTitles(context.debate_info, 1)

\* the rowid sqlite gives "INSERT into paragraph values(null, ...)"
NextParaId(db) ==
    IF db.paragraph = {} THEN 1 ELSE Max({r.para_id : r \in db.paragraph}) + 1

\* a test that lets the first paragraph of a session pass without a debate row
TitleChangedFromSecond(debate_title, last_debate_title) ==
    last_debate_title # Null /\ debate_title # last_debate_title

\* a debate row for every paragraph
EveryParagraph(debate_title, last_debate_title) == TRUE

\* debate_title is not None and debate_title != last_debate_title (line 251);
\* the joined title is always a string
TitleChanged(debate_title, last_debate_title) == debate_title # last_debate_title

(***************************************************************************)
(* One iteration of the paragraph loop of                                  *)
(* insert_processed_xml_transcript_detail.  st carries the loop's locals:  *)
(* db, debate_id, next_debate, debate_no, last_debate_title.               *)
(***************************************************************************)
InsertParagraph(st, sid, sequence_no, context) ==
    LET debate_title == DebateTitle(context)
        new == TitleChanged(debate_title, st.last_debate_title)
        st1 == IF new
               THEN [st EXCEPT
                       !.db.debate = @ \cup {[debate_id |-> st.next_debate,
                                              session_id |-> sid,
                                              debate_no |-> st.debate_no,
                                              title |-> debate_title]},
                       !.debate_id = st.next_debate,
                       !.next_debate = @ + 1,
                       !.debate_no = @ + 1,
                       !.last_debate_title = debate_title]
               ELSE st
        speaker_id == IF "name.id" \in DOMAIN context.speaker
                      THEN Upper(context.speaker["name.id"]) ELSE Null
    IN  [st1 EXCEPT
           !.db.paragraph = @ \cup {[para_id |-> NextParaId(st1.db),
                                     session_id |-> sid,
                                     sequence_number |-> sequence_no,
                                     speaker_id |-> speaker_id,
                                     debate_id |-> st1.debate_id,
                                     fragment_number |-> context.fragment_number,
                                     fragment_type |-> context.fragment_type,
                                     paragraph_text |-> context.text]},
           !.db.paragraph_enclosing_context = @ \cup
               {[session_id |-> sid, sequence_number |-> sequence_no, tag |-> tag] :
                    tag \in context.enclosing_tags}]

RECURSIVE InsertParagraphs(_, _, _, _)
InsertParagraphs(st, sid, paragraphs, k) ==
    IF k > Len(paragraphs) THEN st
    ELSE LET after == {InsertParagraph(st, sid, k - 1, paragraphs[k])}
         IN  CHOOSE out \in {InsertParagraphs(s, sid, paragraphs, k + 1) : s \in after} :
                 TRUE

(***************************************************************************)
(* insert_processed_xml_transcript_detail: the session row, then the       *)
(* paragraph loop; returns the database and next_debate.                   *)
(***************************************************************************)
InsertProcessedXmlTranscriptDetail(db, sid, debate_id, url, transcript_pdf_url, session_info, paragraphs) ==
    LET db1 == [db EXCEPT !.session = @ \cup {[session_id |-> sid,
                                                url |-> url,
                                                transcript_pdf_url |-> transcript_pdf_url,
                                                date |-> session_info.date,
                                                chamber |-> session_info.chamber]}]
        st0 == [db |-> db1, debate_id |-> debate_id, next_debate |-> debate_id + 1,
                debate_no |-> 1, last_debate_title |-> Null]
        st  == InsertParagraphs(st0, sid, paragraphs, 1)
    IN  [db |-> st.db, next_debate |-> st.next_debate]

(***************************************************************************)
(* The orchestrator: prepare_transcripts.py __main__.                      *)
(***************************************************************************)
\* a corpus an earlier run left in oz_federal_hansard.db: one session, of a
\* transcript without paragraphs
PreviousCorpus ==
    InsertProcessedXmlTranscriptDetail(EmptyCorpus, 1, 1, 1, 1, DocKinds[6].session_info,
                                       DocKinds[6].paragraphs).db

OrchInit ==
    /\ \E n \in 0..MaxTranscripts, shift \in 0..(Len(DocKinds) - 1) :
           transcripts = Batch(n, shift)
    /\ orchPc = "start"
    /\ rowIdx = 1
    /\ tasks_in_flight = {}
    /\ completed = {}
    /\ taskState = [i \in 1..Len(transcripts) |-> "none"]
    /\ session_id = 1
    /\ next_debate = 1
    /\ corpus \in {EmptyCorpus, PreviousCorpus}
    /\ processed_db = corpus
    /\ previousCorpus = corpus
    /\ committedCorpora = {}
    /\ runNo = 1

\* the orchestrator's variables while another subsystem is checked
OrchIdle ==
    /\ transcripts = <<>>
    /\ orchPc = "start"
    /\ rowIdx = 1
    /\ tasks_in_flight = {}
    /\ completed = {}
    /\ taskState = <<>>
    /\ session_id = 1
    /\ next_debate = 1
    /\ processed_db = EmptyCorpus
    /\ corpus = EmptyCorpus
    /\ previousCorpus = EmptyCorpus
    /\ committedCorpora = {}
    /\ runNo = 1

\* executescript (DROP / create table, autocommit), the SELECT, begin, the pool
OrchStart ==
    /\ orchPc = "start"
    /\ processed_db' = EmptyCorpus
    /\ corpus' = EmptyCorpus
    /\ orchPc' = "loop"
    /\ rowIdx' = 1
    /\ tasks_in_flight' = {}
    /\ completed' = {}
    /\ taskState' = [i \in 1..Len(transcripts) |-> "none"]
    /\ session_id' = 1
    /\ next_debate' = 1
    /\ previousCorpus' = corpus
    /\ UNCHANGED <<transcripts, committedCorpora, runNo>>
    /\ UNCHANGED notOrch

\* one iteration of "for url, transcript_pdf_url, transcript_type, transcript"
\* up to the test of len(tasks_in_flight)
OrchSubmit ==
    /\ orchPc = "loop"
    /\ rowIdx <= Len(transcripts)
    /\ IF transcripts[rowIdx].doc.ignored
       THEN /\ rowIdx' = rowIdx + 1
            /\ UNCHANGED <<tasks_in_flight, taskState, orchPc>>
       ELSE /\ tasks_in_flight' = tasks_in_flight \cup {rowIdx}
            /\ taskState' = [taskState EXCEPT ![rowIdx] = "queued"]
            /\ IF Cardinality(tasks_in_flight') > InFlightLimit
               THEN orchPc' = "wait" /\ rowIdx' = rowIdx
               ELSE orchPc' = "loop" /\ rowIdx' = rowIdx + 1
    /\ UNCHANGED <<transcripts, completed, session_id, next_debate, processed_db,
                   corpus, committedCorpora, previousCorpus, runNo>>
    /\ UNCHANGED notOrch

\* a future that never reports its result
FutureNeverDone(t) == FALSE

\* future.done(): the worker has finished the call (result or exception)
FutureDone(t) == taskState[t] = "finished"

\* a wait that hands back every future as not done
NotDoneKeepsAll(fs, done) == fs

\* the not_done set cf.wait returns: the futures that are not in done
NotDone(fs, done) == fs \ done

\* cf.wait(tasks_in_flight, return_when=cf.FIRST_COMPLETED)
OrchWait ==
    /\ orchPc = "wait"
    /\ \E t \in tasks_in_flight : FutureDone(t)
    /\ completed' = {t \in tasks_in_flight : FutureDone(t)}
    /\ tasks_in_flight' = NotDone(tasks_in_flight, completed')
    /\ orchPc' = "batch"
    /\ UNCHANGED <<transcripts, rowIdx, taskState, session_id, next_debate,
                   processed_db, corpus, committedCorpora, previousCorpus, runNo>>
    /\ UNCHANGED notOrch

(***************************************************************************)
(* The body both loops run on a collected task: task.result(), the insert  *)
(* for an xml transcript, session_id += 1.  An exception raised by the     *)
(* worker is re-raised by task.result() and nothing catches it: the pool   *)
(* is shut down, the script ends and the open transaction is lost.         *)
(***************************************************************************)
Collect(t) ==
    LET res == TaskResult(transcripts[t])
    IN  IF res.raised
        THEN /\ orchPc' = "crashed"
             /\ processed_db' = corpus
             /\ UNCHANGED <<session_id, next_debate>>
        ELSE /\ IF res.transcript_type = "xml"
                THEN LET r == InsertProcessedXmlTranscriptDetail(
                                  processed_db, session_id, next_debate, res.url,
                                  res.transcript_pdf_url, res.session_info,
                                  res.paragraphs)
                     IN  processed_db' = r.db /\ next_debate' = r.next_debate
                ELSE UNCHANGED <<processed_db, next_debate>>
             /\ session_id' = session_id + 1
             /\ UNCHANGED orchPc

\* "for task in completed": the set is iterated in no defined order
OrchBatchTask ==
    /\ orchPc = "batch"
    /\ \E t \in completed :
          /\ Collect(t)
          /\ completed' = completed \ {t}
    /\ UNCHANGED <<transcripts, rowIdx, tasks_in_flight, taskState, corpus,
                   committedCorpora, previousCorpus, runNo>>
    /\ UNCHANGED notOrch

\* the end of "for task in completed": print, next row
OrchBatchEnd ==
    /\ orchPc = "batch"
    /\ completed = {}
    /\ orchPc' = "loop"
    /\ rowIdx' = rowIdx + 1
    /\ UNCHANGED <<transcripts, tasks_in_flight, completed, taskState, session_id,
                   next_debate, processed_db, corpus, committedCorpora, previousCorpus, runNo>>
    /\ UNCHANGED notOrch

\* the for loop over transcripts is exhausted: cf.as_completed(tasks_in_flight)
OrchLoopEnd ==
    /\ orchPc = "loop"
    /\ rowIdx > Len(transcripts)
    /\ orchPc' = "drain"
    /\ UNCHANGED <<transcripts, rowIdx, tasks_in_flight, completed, taskState,
                   session_id, next_debate, processed_db, corpus, committedCorpora, previousCorpus,
                   runNo>>
    /\ UNCHANGED notOrch

\* "for task in cf.as_completed(tasks_in_flight)": any finished task comes next
OrchDrainTask ==
    /\ orchPc = "drain"
    /\ \E t \in tasks_in_flight :
          /\ FutureDone(t)
          /\ Collect(t)
          /\ tasks_in_flight' = tasks_in_flight \ {t}
    /\ UNCHANGED <<transcripts, rowIdx, completed, taskState, corpus,
                   committedCorpora, previousCorpus, runNo>>
    /\ UNCHANGED notOrch

\* as_completed is exhausted, the pool is left, processed_db.execute("commit")
OrchCommit ==
    /\ orchPc = "drain"
    /\ tasks_in_flight = {}
    /\ corpus' = processed_db
    /\ committedCorpora' = committedCorpora \cup {processed_db}
    /\ orchPc' = "done"
    /\ UNCHANGED <<transcripts, rowIdx, tasks_in_flight, completed, taskState,
                   session_id, next_debate, processed_db, previousCorpus, runNo>>
    /\ UNCHANGED notOrch

\* the script is run again on the same transcripts_progress.db
OrchRerun ==
    /\ orchPc \in {"done", "crashed"}
    /\ runNo < MaxRuns
    /\ runNo' = runNo + 1
    /\ orchPc' = "start"
    /\ UNCHANGED <<transcripts, rowIdx, tasks_in_flight, completed, taskState,
                   session_id, next_debate, processed_db, corpus, committedCorpora, previousCorpus>>
    /\ UNCHANGED notOrch

OrchRunning == orchPc \in {"loop", "wait", "batch", "drain"}

\* a pool process takes the oldest queued call
WorkerStart ==
    /\ OrchRunning
    /\ \E t \in DOMAIN taskState :
          /\ taskState[t] = "queued"
          /\ t = Min({u \in DOMAIN taskState : taskState[u] = "queued"})
          /\ Cardinality({u \in DOMAIN taskState : taskState[u] = "running"}) < PoolWorkers
          /\ taskState' = [taskState EXCEPT ![t] = "running"]
    /\ UNCHANGED <<transcripts, orchPc, rowIdx, tasks_in_flight, completed, session_id,
                   next_debate, processed_db, corpus, committedCorpora, previousCorpus, runNo>>
    /\ UNCHANGED notOrch

\* a pool process finishes its call (with a result or with an exception)
WorkerFinish ==
    /\ OrchRunning
    /\ \E t \in DOMAIN taskState :
          /\ taskState[t] = "running"
          /\ taskState' = [taskState EXCEPT ![t] = "finished"]
    /\ UNCHANGED <<transcripts, orchPc, rowIdx, tasks_in_flight, completed, session_id,
                   next_debate, processed_db, corpus, committedCorpora, previousCorpus, runNo>>
    /\ UNCHANGED notOrch

OrchNext ==
    \/ OrchStart
    \/ OrchSubmit
    \/ OrchWait
    \/ OrchBatchTask
    \/ OrchBatchEnd
    \/ OrchLoopEnd
    \/ OrchDrainTask
    \/ OrchCommit
    \/ OrchRerun
    \/ WorkerStart
    \/ WorkerFinish


(***************************************************************************)
(* Time.  Timestamps and dates are ISO-8601 strings in the program and are *)
(* compared as strings; the model numbers them so that the integer order   *)
(* is the string order: the date of day d is d * DayTicks, and the         *)
(* timestamps of that day (timestamp_now(), always UTC) are                *)
(* d * DayTicks + t for 1 <= t < DayTicks, each greater than its date      *)
(* (the date is a proper prefix of the timestamp) and smaller than the     *)
(* next date.                                                              *)
(***************************************************************************)
DateOf(day) == day * DayTicks
DayOfTime(ts) == ts \div DayTicks
\* the next instant at which timestamp_now() is called
Tick(ts) == IF (ts + 1) % DayTicks = 0 THEN ts + 2 ELSE ts + 1
\* "2000-01-01", the retrieved value of a new hansard_transcript row
AncientRetrieved == DateOf(0)

(***************************************************************************)
(* The retrieval worker: download_transcripts.py retrieve_transcripts.     *)
(*                                                                         *)
(* What the site serves for a reference page: the links on it, the         *)
(* metadata table (each value by its "/"-separated components), what the   *)
(* fetch of the markup link yields ("source", or "timeout"), the file the  *)
(* browser left in the download directory (Null: none) and the texts of    *)
(* the "html > body > pre" elements.                                       *)
(***************************************************************************)
HtmlSources == {"<html><pre>sgml-D</pre></html>", "<html>error</html>",
                "<html><pre>x</pre><pre>y</pre></html>"}
StartsWithHtml(markup) == markup \in HtmlSources

SysId(chamber_id) == ("System Id" :> <<"chamber", chamber_id, "1998-03-02", "0000">>)

PageKinds ==
    << \* modern dialect: one toc_unixml link
       [html |-> "page-A", pdf_links |-> <<"toc_pdf-A">>, xml_links |-> <<"toc_unixml-A">>,
        mapping |-> SysId("hansardr"), fetch |-> "source", source |-> "<hansard>A</hansard>",
        download |-> Null, pres |-> <<>>],
       \* legacy dialect, House of Representatives
       [html |-> "page-B", pdf_links |-> <<"toc_pdf-B">>, xml_links |-> <<>>,
        mapping |-> SysId("hansardr"), fetch |-> "source", source |-> "<!DOCTYPE><HANSARD>B",
        download |-> Null, pres |-> <<>>],
       \* two toc_unixml links
       [html |-> "page-C", pdf_links |-> <<"toc_pdf-C">>,
        xml_links |-> <<"toc_unixml-C1", "toc_unixml-C2">>,
        mapping |-> SysId("hansards"), fetch |-> "source", source |-> "<hansard>C</hansard>",
        download |-> Null, pres |-> <<>>],
       \* legacy dialect, Senate, shown by the browser inside one <pre>
       [html |-> "page-D", pdf_links |-> <<>>, xml_links |-> <<>>,
        mapping |-> SysId("hansards"), fetch |-> "source",
        source |-> "<html><pre>sgml-D</pre></html>",
        download |-> Null, pres |-> <<"sgml-D">>],
       \* modern dialect, the markup fetch times out
       [html |-> "page-E", pdf_links |-> <<"toc_pdf-E">>, xml_links |-> <<"toc_unixml-E">>,
        mapping |-> SysId("hansardr"), fetch |-> "timeout", source |-> Null,
        download |-> "<hansard>E</hansard>", pres |-> <<>>],
       \* legacy dialect, the markup fetch times out, the file was downloaded
       [html |-> "page-F", pdf_links |-> <<"toc_pdf-F">>, xml_links |-> <<>>,
        mapping |-> SysId("hansards"), fetch |-> "timeout", source |-> Null,
        download |-> "<!DOCTYPE><HANSARD>F", pres |-> <<>>],
       \* legacy dialect, an html error page without <pre>
       [html |-> "page-G", pdf_links |-> <<"toc_pdf-G">>, xml_links |-> <<>>,
        mapping |-> SysId("hansardr"), fetch |-> "source", source |-> "<html>error</html>",
        download |-> Null, pres |-> <<>>],
       \* legacy dialect, the markup fetch times out, nothing was downloaded
       [html |-> "page-H", pdf_links |-> <<"toc_pdf-H">>, xml_links |-> <<>>,
        mapping |-> SysId("hansardr"), fetch |-> "timeout", source |-> Null,
        download |-> Null, pres |-> <<>>],
       \* modern dialect, the markup link serves an html page
       [html |-> "page-I", pdf_links |-> <<"toc_pdf-I">>, xml_links |-> <<"toc_unixml-I">>,
        mapping |-> SysId("hansards"), fetch |-> "source",
        source |-> "<html><pre>sgml-D</pre></html>",
        download |-> Null, pres |-> <<"sgml-D">>],
       \* legacy dialect, a System Id of neither chamber
       [html |-> "page-J", pdf_links |-> <<"toc_pdf-J">>, xml_links |-> <<>>,
        mapping |-> SysId("committees"), fetch |-> "source", source |-> "<!DOCTYPE><HANSARD>J",
        download |-> Null, pres |-> <<>>],
       \* legacy dialect, two <pre> elements
       [html |-> "page-K", pdf_links |-> <<"toc_pdf-K">>, xml_links |-> <<>>,
        mapping |-> SysId("hansards"), fetch |-> "source",
        source |-> "<html><pre>x</pre><pre>y</pre></html>",
        download |-> Null, pres |-> <<"x", "y">>],
       \* no toc_unixml link and no System Id in the metadata
       [html |-> "page-L", pdf_links |-> <<"toc_pdf-L">>, xml_links |-> <<>>,
        mapping |-> ("Title" :> <<"Hansard">>), fetch |-> "source",
        source |-> "<!DOCTYPE><HANSARD>L", download |-> Null, pres |-> <<>>],
       \* two toc_pdf links
       [html |-> "page-M", pdf_links |-> <<"toc_pdf-M1", "toc_pdf-M2">>,
        xml_links |-> <<"toc_unixml-M">>,
        mapping |-> SysId("hansardr"), fetch |-> "source", source |-> "<hansard>M</hansard>",
        download |-> Null, pres |-> <<>>] >>

\* the page the site serves for url, the kinds taken round-robin from an offset
PageOf(url, shift) == PageKinds[((url + shift) % Len(PageKinds)) + 1]

\* "/".join(components)
RECURSIVE JoinSlash(_, _)
JoinSlash(components, k) ==
    IF k > Len(components) THEN ""
    ELSE IF k = Len(components) THEN components[k]
    ELSE components[k] \o "/" \o JoinSlash(components, k + 1)

(***************************************************************************)
(* Lines 255-318: the pdf link, the markup link and the dialect.  house is *)
(* the value the local has when the item starts; it is assigned only for   *)
(* the two known chambers and otherwise keeps its earlier value.           *)
(***************************************************************************)
ResolveLinks(page, house0) ==
    LET pdf_link == IF Len(page.pdf_links) >= 1 THEN page.pdf_links[1] ELSE Null
        failed == [raised |-> TRUE, house |-> house0]
    IN  IF Len(page.pdf_links) > 1 THEN failed            \* assert len(pdf_links) <= 1
        ELSE IF Len(page.xml_links) > 1 THEN failed       \* assert len(xml_links) <= 1
        ELSE IF Len(page.xml_links) = 1
        THEN [raised |-> FALSE, house |-> house0, pdf_link |-> pdf_link,
              transcript_link |-> page.xml_links[1], transcript_type |-> "xml"]
        ELSE IF "System Id" \notin DOMAIN page.mapping THEN failed      \* KeyError
        ELSE LET system_id_components == page.mapping["System Id"]
             IN  IF Len(system_id_components) < 3 THEN failed           \* IndexError
                 ELSE LET transcript_id ==
                              JoinSlash(SubSeq(system_id_components, 1,
                                               Len(system_id_components) - 1), 1)
                          date == system_id_components[3]
                          house1 == IF system_id_components[2] = "hansardr" THEN "reps"
                                    ELSE IF system_id_components[2] = "hansards"
                                    THEN "senate"
                                    ELSE house0
                      IN  IF house1 = Null THEN failed       \* UnboundLocalError
                          ELSE [raised |-> FALSE, house |-> house1,
                                pdf_link |-> pdf_link,
                                transcript_link |->
                                    "https://parlinfo.aph.gov.au/parlInfo/download/"
                                    \o transcript_id \o "/toc_sgml/" \o house1
                                    \o "%20" \o date \o ".sgm",
                                transcript_type |-> "sgml"]

\* a handler that reads the downloaded file whatever the dialect
FetchMarkupAnyDialect(page, transcript_type) ==
    IF page.fetch = "source"
    THEN [raised |-> FALSE, transcript_markup |-> page.source]
    ELSE IF page.download # Null
    THEN [raised |-> FALSE, transcript_markup |-> page.download]
    ELSE [raised |-> TRUE]

(***************************************************************************)
(* Lines 324-342: the fetch of the markup link, and on a TimeoutException  *)
(* the file of the download directory for the legacy dialect.              *)
(***************************************************************************)
FetchMarkup(page, transcript_type) ==
    IF page.fetch = "source"
    THEN [raised |-> FALSE, transcript_markup |-> page.source]
    ELSE IF transcript_type = "sgml" /\ page.download # Null
    THEN [raised |-> FALSE, transcript_markup |-> page.download]
    ELSE [raised |-> TRUE]

\* an unwrapping that does not look at the dialect
UnwrapAnyDialect(page, transcript_type, transcript_markup) ==
    IF StartsWithHtml(transcript_markup)
    THEN IF Len(page.pres) = 1 THEN page.pres[1] ELSE Null
    ELSE transcript_markup

\* Lines 344-357: content that the browser wrapped in an html page
Unwrap(page, transcript_type, transcript_markup) ==
    IF StartsWithHtml(transcript_markup)
    THEN IF transcript_type = "sgml" /\ Len(page.pres) = 1 THEN page.pres[1] ELSE Null
    ELSE transcript_markup

(***************************************************************************)
(* The try body of one item (lines 240-382) up to the commit, on the page  *)
(* the site serves.  transport is what the network and the database do to  *)
(* this item: "none", or an exception raised by the fetch of the reference *)
(* page ("ref_page") or by the commit ("commit").  The result says whether *)
(* an exception was raised and at which step, whether line 260 assigned    *)
(* transcript_link, whether the UPDATE was executed, and the values.       *)
(***************************************************************************)
ItemProtocol(page, house0, transport) ==
    IF transport = "ref_page"
    THEN [raised |-> TRUE, step |-> "ref_page", link_assigned |-> FALSE,
          updated |-> FALSE, house |-> house0]
    ELSE LET r == ResolveLinks(page, house0)
         IN  IF r.raised
             THEN [raised |-> TRUE, step |-> "resolve", link_assigned |-> TRUE,
                   updated |-> FALSE, house |-> r.house]
             ELSE LET f == FetchMarkup(page, r.transcript_type)
                  IN  IF f.raised
                      THEN [raised |-> TRUE, step |-> "markup", link_assigned |-> TRUE,
                            updated |-> FALSE, house |-> r.house]
                      ELSE [raised |-> transport = "commit",
                            step |-> "commit", link_assigned |-> TRUE,
                            updated |-> TRUE, house |-> r.house,
                            values |->
                               [html |-> page.html,
                                pdf_link |-> r.pdf_link,
                                transcript_url |-> r.transcript_link,
                                markup_type |-> r.transcript_type,
                                transcript_markup |->
                                    Unwrap(page, r.transcript_type,
                                           f.transcript_markup)]]

\* UPDATE hansard_transcript set ... where url = :url (lines 359-380)
SqlUpdate(table, url, now, values) ==
    [table EXCEPT ![url] =
        [@ EXCEPT !.retrieved = now,
                  !.html_ref_page = values.html,
                  !.transcript_pdf_url = values.pdf_link,
                  !.transcript_markup_url = values.transcript_url,
                  !.transcript_markup_type = values.markup_type,
                  !.transcript_markup = values.transcript_markup]]

\* a handler that leaves the item's writes in place
RollbackKeepsWrites(snapshot, working) == working

\* db.execute("rollback") at line 392: the table as it was at "begin"
Rollback(snapshot, working) == snapshot

\* a counter of consecutive failures: a committed item resets it
FailuresAfterConsecutive(n, raised) == IF raised THEN n + 1 ELSE 0

\* failures += 1 in the except handler; nothing resets the counter
FailuresAfter(n, raised) == IF raised THEN n + 1 ELSE n

\* a breaker that trips one failure late
BreakerTripsLate(n) == n > FailureLimit

\* if failures >= 10: break
BreakerTrips(n) == n >= FailureLimit

\* a SELECT without the where clause: every row
StaleOrNot(table) == DOMAIN table

\* the rows "where retrieved < lastmod"
Stale(table) == {u \in DOMAIN table : table[u].retrieved < table[u].lastmod}

(***************************************************************************)
(* "order by lastmod": every list of S in ascending lastmod order; rows    *)
(* of equal lastmod come in either order.                                  *)
(***************************************************************************)
RECURSIVE OrderByLastmod(_, _)
OrderByLastmod(table, S) ==
    IF S = {} THEN {<<>>}
    ELSE LET first == {u \in S : \A v \in S : table[u].lastmod <= table[v].lastmod}
         IN  UNION {{<<u>> \o rest : rest \in OrderByLastmod(table, S \ {u})} :
                        u \in first}

(***************************************************************************)
(* The hansard_transcript tables retrieval starts from: rows that          *)
(* identify_transcripts_to_retrieve created (retrieved = "2000-01-01", the *)
(* other columns NULL), in lastmod order profile 0 (ascending with url),   *)
(* 1 (descending) or 2 (ascending, the first two rows of equal lastmod);   *)
(* in profile 1 the last row was retrieved by an earlier run after its     *)
(* lastmod.                                                                *)
(***************************************************************************)
NewRow(lastmod) ==
    [lastmod |-> lastmod, retrieved |-> AncientRetrieved, html_ref_page |-> Null,
     transcript_pdf_url |-> Null, transcript_markup_url |-> Null,
     transcript_markup_type |-> Null, transcript_markup |-> Null]

RetrievedRow(lastmod, retrieved) ==
    [lastmod |-> lastmod, retrieved |-> retrieved, html_ref_page |-> "page-A",
     transcript_pdf_url |-> "toc_pdf-A", transcript_markup_url |-> "toc_unixml-A",
     transcript_markup_type |-> "xml", transcript_markup |-> "<hansard>A</hansard>"]

LastmodDay(u, n, profile) ==
    CASE profile = 0 -> u
      [] profile = 1 -> n + 1 - u
      [] OTHER -> IF u = 1 THEN 2 ELSE u

InitialTranscripts(n, profile) ==
    [u \in 1..n |->
        IF profile = 1 /\ u = n /\ n > 1
        THEN RetrievedRow(DateOf(LastmodDay(u, n, profile)),
                          DateOf(LastmodDay(u, n, profile)) + 1)
        ELSE NewRow(DateOf(LastmodDay(u, n, profile)))]

RetrInit ==
    /\ \E n \in 0..MaxItems, profile \in 0..2 :
          hansard_transcript = InitialTranscripts(n, profile)
    /\ siteShift \in 0..(Len(PageKinds) - 1)
    /\ retrPc = "start"
    /\ to_retrieve = <<>>
    /\ itemIdx = 1
    /\ failures = 0
    /\ linkBound = FALSE
    /\ house = Null
    /\ clock = DateOf(MaxItems + 2) + 1
    /\ outcomes = <<>>
    /\ lastFailStep = Null
    /\ fetchLog = <<>>

\* lines 223-233: the SELECT, last_loop_start = 0, failures = 0
RetrStart ==
    /\ retrPc = "start"
    /\ to_retrieve' \in OrderByLastmod(hansard_transcript, Stale(hansard_transcript))
    /\ failures' = 0
    /\ itemIdx' = 1
    /\ retrPc' = "loop"
    /\ UNCHANGED <<hansard_transcript, siteShift, linkBound, house, clock, outcomes,
                   lastFailStep, fetchLog>>
    /\ UNCHANGED notRetr

(***************************************************************************)
(* One iteration of "for i, url in enumerate(to_retrieve)": the try body   *)
(* and, on an exception, the handler.  The handler's print reads           *)
(* transcript_link: while no iteration has reached line 260 the local is   *)
(* unbound, the print raises UnboundLocalError out of the handler and out  *)
(* of retrieve_transcripts ("aborted"), before the rollback; the           *)
(* connection is then dropped with its transaction open.                   *)
(***************************************************************************)
RetrieveItem ==
    /\ retrPc = "loop"
    /\ itemIdx <= Len(to_retrieve)
    /\ \E transport \in {"none", "ref_page", "commit"} :
          LET url == to_retrieve[itemIdx]
              now == clock
              snapshot == hansard_transcript
              res == ItemProtocol(PageOf(url, siteShift), house, transport)
              working == IF res.updated
                         THEN SqlUpdate(snapshot, url, now, res.values)
                         ELSE snapshot
          IN  /\ clock' = Tick(clock)
              /\ fetchLog' = Append(fetchLog, url)
              /\ house' = res.house
              /\ failures' = FailuresAfter(failures, res.raised)
              /\ linkBound' = (linkBound \/ res.link_assigned)
              /\ IF ~res.raised
                 THEN /\ hansard_transcript' = working
                      /\ outcomes' = Append(outcomes, "ok")
                      /\ itemIdx' = itemIdx + 1
                      /\ UNCHANGED <<retrPc, lastFailStep>>
                 ELSE /\ outcomes' = Append(outcomes, "failed")
                      /\ lastFailStep' = res.step
                      /\ IF ~linkBound'
                         THEN /\ retrPc' = "aborted"
                              /\ hansard_transcript' = snapshot
                              /\ UNCHANGED itemIdx
                         ELSE /\ hansard_transcript' = Rollback(snapshot, working)
                              /\ IF BreakerTrips(failures')
                                 THEN retrPc' = "halted" /\ UNCHANGED itemIdx
                                 ELSE itemIdx' = itemIdx + 1 /\ UNCHANGED retrPc
    /\ UNCHANGED <<siteShift, to_retrieve>>
    /\ UNCHANGED notRetr

\* to_retrieve is exhausted: retrieve_transcripts returns
RetrEnd ==
    /\ retrPc = "loop"
    /\ itemIdx > Len(to_retrieve)
    /\ retrPc' = "done"
    /\ UNCHANGED <<hansard_transcript, siteShift, to_retrieve, itemIdx, failures,
                   linkBound, house, clock, outcomes, lastFailStep, fetchLog>>
    /\ UNCHANGED notRetr

RetrNext ==
    \/ RetrStart
    \/ RetrieveItem
    \/ RetrEnd

\* the retrieval worker's variables while another subsystem is checked
RetrIdle ==
    /\ siteShift = 0
    /\ retrPc = "start"
    /\ to_retrieve = <<>>
    /\ itemIdx = 1
    /\ failures = 0
    /\ linkBound = FALSE
    /\ house = Null
    /\ outcomes = <<>>
    /\ lastFailStep = Null
    /\ fetchLog = <<>>

(***************************************************************************)
(* The discovery crawler: download_transcripts.py init_and_refresh_sitemap.*)
(*                                                                         *)
(* The index the site serves: n shards, listed oldest first (the program   *)
(* walks reversed(sitemaps)), each with its <url> entries in document      *)
(* order.  Variant 0: shard i lists url i, last modified on day 2i.        *)
(* Variant 1: as 0, but url 1 was modified after everything else and is    *)
(* now listed in the newest shard; shard 1 is left empty.  Variant 2: two  *)
(* entries per shard.  Variant 3: every url was modified on the same       *)
(* recent day.  Variant 4: the index is not ordered by recency, the older  *)
(* a shard the later its url was modified.                                 *)
(***************************************************************************)
Entry(url, day) == [url |-> url, lastmod |-> DateOf(day)]

ShardEntries(i, n, variant) ==
    CASE variant = 0 -> <<Entry(i, 2 * i)>>
      [] variant = 1 -> IF i = 1 /\ n > 1 THEN <<>>
                        ELSE IF i = n /\ n > 1
                        THEN <<Entry(i, 2 * i), Entry(1, 2 * n + 1)>>
                        ELSE <<Entry(i, 2 * i)>>
      [] variant = 2 -> <<Entry(i, 2 * i - 1), Entry(i + MaxShards, 2 * i)>>
      [] variant = 3 -> <<Entry(i, 2 * MaxShards)>>
      [] OTHER -> <<Entry(i, 2 * (n + 1 - i) + 1)>>

RemoteIndex(n, variant) ==
    [i \in 1..n |-> [name |-> i, entries |-> ShardEntries(i, n, variant)]]

RemoteIndexes == {RemoteIndex(n, variant) : n \in 0..MaxShards, variant \in 0..4}

\* the entries extract_sitemap_components yields for the shard named name
EntriesOf(index, name) ==
    LET i == CHOOSE j \in DOMAIN index : index[j].name = name
    IN  index[i].entries

(***************************************************************************)
(* The sqlite connection, opened with isolation_level=None: a statement    *)
(* outside "begin" ... "commit" is committed at once, one inside is        *)
(* committed by the "commit".  db is [committed, working, open].           *)
(***************************************************************************)
SqlBegin(db) == [db EXCEPT !.open = TRUE]

SqlCommit(db) == [db EXCEPT !.committed = db.working, !.open = FALSE]

\* REPLACE into sitemap values(loc, source_sitemap, lastmod)
SqlReplaceSitemap(db, loc, source_sitemap, lastmod) ==
    LET t == (loc :> [source_sitemap |-> source_sitemap, lastmod |-> lastmod])
             @@ db.working
    IN  [db EXCEPT !.working = t,
                   !.committed = IF db.open THEN @ ELSE t]

\* the process ends with the connection open: an open transaction is lost
ConnectionLost(db) == [db EXCEPT !.working = db.committed, !.open = FALSE]

\* an insert that overwrites the row of an existing key
InsertOrReplace(table, key, value) == (key :> value) @@ table

\* INSERT or ignore into process_data values(key, value)
InsertOrIgnore(table, key, value) ==
    IF key \in DOMAIN table THEN table ELSE table @@ (key :> value)

\* REPLACE into process_data values(key, value)
ReplaceInto(table, key, value) == (key :> value) @@ table

\* a visit without "begin": every REPLACE is committed at once
ShardBeginOmitted(db) == db

\* db.execute("begin") at the head of a shard's visit (lines 106 and 137)
ShardBegin(db) == SqlBegin(db)

\* a guard that accepts an index one shard below the floor
SizingGuardOffByOne(names) == Len(names) < SitemapFloor - 1

\* if len(sitemaps) < 2217: raise ValueError
SizingGuard(names) == Len(names) < SitemapFloor

\* a loop that stops after the first shard
RefreshBreakAtOnce(shard_max, ref_date) == TRUE

\* a loop that goes on after a shard last modified on the reference date
RefreshBreakStrict(shard_max, ref_date) == shard_max < ref_date

\* if max_lastmod <= reference_date: break
RefreshBreak(shard_max, ref_date) == shard_max <= ref_date

\* reference_date: the date of last_refresh_time - refresh_delta
ReferenceDate(last_refresh_time) == DateOf(DayOfTime(last_refresh_time) - RefreshDays)

\* all the entries of one shard written over a table: one committed visit
RECURSIVE ApplyEntries(_, _, _, _)
ApplyEntries(table, source_sitemap, entries, k) ==
    IF k > Len(entries) THEN table
    ELSE ApplyEntries((entries[k].url :> [source_sitemap |-> source_sitemap,
                                         lastmod |-> entries[k].lastmod]) @@ table,
                      source_sitemap, entries, k + 1)

DiscDb == [committed |-> sitemap, working |-> sitemapTxn, open |-> txnOpen]

\* the shard the loop over reversed(sitemaps) is at
CurrentShard == sitemaps[Len(sitemaps) - shardIdx + 1]

DiscInit ==
    /\ remote = <<>>
    /\ sitemap = <<>>
    /\ sitemapTxn = <<>>
    /\ txnOpen = FALSE
    /\ process_data = <<>>
    /\ discPc = "idle"
    /\ sitemaps = <<>>
    /\ previously_retrieved = {}
    /\ shardIdx = 1
    /\ entryIdx = 1
    /\ max_lastmod = -1
    /\ reference_date = 0
    /\ calls = 0
    /\ shardFetches = <<>>
    /\ visitLog = {}
    /\ lostWrites = 0
    /\ before = [pc |-> "idle", remote |-> <<>>, sitemap |-> <<>>, process_data |-> <<>>]
    /\ refreshFetches = <<>>

\* the discovery crawler's variables while another subsystem is checked
DiscIdle == DiscInit

(***************************************************************************)
(* Lines 57-96: the index root is fetched and parsed, previously_retrieved *)
(* is read, the two checkpoints are inserted (or ignored) and then the     *)
(* size of the index is tested.  The fetch of the root may fail.           *)
(***************************************************************************)
DiscStart ==
    /\ discPc \in {"idle", "done", "fatal", "crashed"}
    /\ calls < MaxCalls
    /\ calls' = calls + 1
    /\ before' = [pc |-> discPc, remote |-> remote, sitemap |-> sitemap,
                  process_data |-> process_data]
    /\ \E index \in RemoteIndexes, now \in {Tick(clock), DateOf(DayOfTime(clock) + 1) + 1},
          rootOk \in BOOLEAN :
          /\ remote' = index
          /\ clock' = now
          /\ IF ~rootOk
             THEN /\ discPc' = "crashed"
                  /\ UNCHANGED <<process_data, sitemaps, previously_retrieved>>
             ELSE /\ sitemaps' = [i \in 1..Len(index) |-> index[i].name]
                  /\ previously_retrieved' =
                         {sitemap[u].source_sitemap : u \in DOMAIN sitemap}
                  /\ process_data' =
                         InsertOrIgnore(InsertOrIgnore(process_data,
                                                       "last_refresh_time", now),
                                        "last_full_refresh_time", now)
                  /\ discPc' = IF SizingGuard(sitemaps') THEN "fatal" ELSE "init"
    /\ shardIdx' = 1
    /\ entryIdx' = 1
    /\ shardFetches' = <<>>
    /\ refreshFetches' = <<>>
    /\ lostWrites' = 0
    /\ UNCHANGED <<sitemap, sitemapTxn, txnOpen, max_lastmod, reference_date, visitLog,
                   hansard_transcript>>
    /\ UNCHANGED notDisc

\* init loop: "if source_sitemap in previously_retrieved: continue"
InitSkip ==
    /\ discPc = "init"
    /\ shardIdx <= Len(sitemaps)
    /\ CurrentShard \in previously_retrieved
    /\ shardIdx' = shardIdx + 1
    /\ UNCHANGED <<remote, sitemap, sitemapTxn, txnOpen, process_data, discPc, sitemaps,
                   previously_retrieved, entryIdx, max_lastmod, reference_date, calls, before, refreshFetches,
                   shardFetches, visitLog, lostWrites, hansard_transcript, clock>>
    /\ UNCHANGED notDisc

\* init loop: begin, driver.get(source_sitemap), the shard is parsed
InitBegin ==
    /\ discPc = "init"
    /\ shardIdx <= Len(sitemaps)
    /\ CurrentShard \notin previously_retrieved
    /\ LET db == ShardBegin(DiscDb)
       IN  /\ txnOpen' = db.open
           /\ sitemap' = db.committed
           /\ sitemapTxn' = db.working
    /\ shardFetches' = Append(shardFetches, CurrentShard)
    /\ entryIdx' = 1
    /\ discPc' = "init_write"
    /\ UNCHANGED <<remote, process_data, sitemaps, previously_retrieved, shardIdx,
                   max_lastmod, reference_date, calls, before, refreshFetches, visitLog, lostWrites,
                   hansard_transcript, clock>>
    /\ UNCHANGED notDisc

\* init loop: one REPLACE into sitemap
InitWrite ==
    /\ discPc = "init_write"
    /\ entryIdx <= Len(EntriesOf(remote, CurrentShard))
    /\ LET e == EntriesOf(remote, CurrentShard)[entryIdx]
           db == SqlReplaceSitemap(DiscDb, e.url, CurrentShard, e.lastmod)
       IN  /\ txnOpen' = db.open
           /\ sitemap' = db.committed
           /\ sitemapTxn' = db.working
    /\ entryIdx' = entryIdx + 1
    /\ UNCHANGED <<remote, process_data, discPc, sitemaps, previously_retrieved, shardIdx,
                   max_lastmod, reference_date, calls, before, refreshFetches, shardFetches, visitLog, lostWrites,
                   hansard_transcript, clock>>
    /\ UNCHANGED notDisc

\* init loop: commit, time.sleep(15), next shard
InitCommit ==
    /\ discPc = "init_write"
    /\ entryIdx > Len(EntriesOf(remote, CurrentShard))
    /\ LET db == SqlCommit(DiscDb)
       IN  /\ txnOpen' = db.open
           /\ sitemap' = db.committed
           /\ sitemapTxn' = db.working
    /\ visitLog' = visitLog \cup {CurrentShard}
    /\ shardIdx' = shardIdx + 1
    /\ discPc' = "init"
    /\ UNCHANGED <<remote, process_data, sitemaps, previously_retrieved, entryIdx,
                   max_lastmod, reference_date, calls, before, refreshFetches, shardFetches, lostWrites,
                   hansard_transcript, clock>>
    /\ UNCHANGED notDisc

\* the init loop is exhausted: lines 118-132, then the refresh loop starts
InitEnd ==
    /\ discPc = "init"
    /\ shardIdx > Len(sitemaps)
    /\ reference_date' = ReferenceDate(process_data["last_refresh_time"])
    /\ shardIdx' = 1
    /\ discPc' = "refresh"
    /\ UNCHANGED <<remote, sitemap, sitemapTxn, txnOpen, process_data, sitemaps,
                   previously_retrieved, entryIdx, max_lastmod, calls, before, refreshFetches, shardFetches,
                   visitLog, lostWrites, hansard_transcript, clock>>
    /\ UNCHANGED notDisc

\* refresh loop: begin, driver.get(source_sitemap), max_lastmod = ""
RefreshBegin ==
    /\ discPc = "refresh"
    /\ shardIdx <= Len(sitemaps)
    /\ LET db == ShardBegin(DiscDb)
       IN  /\ txnOpen' = db.open
           /\ sitemap' = db.committed
           /\ sitemapTxn' = db.working
    /\ shardFetches' = Append(shardFetches, CurrentShard)
    /\ refreshFetches' = Append(refreshFetches, CurrentShard)
    /\ max_lastmod' = -1
    /\ entryIdx' = 1
    /\ discPc' = "refresh_write"
    /\ UNCHANGED <<remote, process_data, sitemaps, previously_retrieved, shardIdx,
                   reference_date, calls, before, visitLog, lostWrites, hansard_transcript, clock>>
    /\ UNCHANGED notDisc

\* refresh loop: one REPLACE into sitemap, max_lastmod = max(lastmod, max_lastmod)
RefreshWrite ==
    /\ discPc = "refresh_write"
    /\ entryIdx <= Len(EntriesOf(remote, CurrentShard))
    /\ LET e == EntriesOf(remote, CurrentShard)[entryIdx]
           db == SqlReplaceSitemap(DiscDb, e.url, CurrentShard, e.lastmod)
       IN  /\ txnOpen' = db.open
           /\ sitemap' = db.committed
           /\ sitemapTxn' = db.working
           /\ max_lastmod' = IF e.lastmod > max_lastmod THEN e.lastmod ELSE max_lastmod
    /\ entryIdx' = entryIdx + 1
    /\ UNCHANGED <<remote, process_data, discPc, sitemaps, previously_retrieved, shardIdx,
                   reference_date, calls, before, refreshFetches, shardFetches, visitLog, lostWrites,
                   hansard_transcript, clock>>
    /\ UNCHANGED notDisc

\* lines 157-158, after the refresh loop: last_refresh_time becomes now
AdvanceCheckpoint ==
    /\ clock' = Tick(clock)
    /\ process_data' = ReplaceInto(process_data, "last_refresh_time", clock')
    /\ discPc' = "done"

(***************************************************************************)
(* refresh loop: commit, then either the break (the shard's max_lastmod is *)
(* not after reference_date) followed by lines 157-158, or time.sleep(15)  *)
(* and the next shard.                                                     *)
(***************************************************************************)
RefreshCommit ==
    /\ discPc = "refresh_write"
    /\ entryIdx > Len(EntriesOf(remote, CurrentShard))
    /\ LET db == SqlCommit(DiscDb)
       IN  /\ txnOpen' = db.open
           /\ sitemap' = db.committed
           /\ sitemapTxn' = db.working
    /\ visitLog' = visitLog \cup {CurrentShard}
    /\ IF RefreshBreak(max_lastmod, reference_date)
       THEN AdvanceCheckpoint /\ UNCHANGED shardIdx
       ELSE /\ shardIdx' = shardIdx + 1
            /\ discPc' = "refresh"
            /\ UNCHANGED <<process_data, clock>>
    /\ UNCHANGED <<remote, sitemaps, previously_retrieved, entryIdx, max_lastmod,
                   reference_date, calls, before, refreshFetches, shardFetches, lostWrites, hansard_transcript>>
    /\ UNCHANGED notDisc

\* the refresh loop is exhausted without a break: lines 157-158
RefreshEnd ==
    /\ discPc = "refresh"
    /\ shardIdx > Len(sitemaps)
    /\ AdvanceCheckpoint
    /\ UNCHANGED <<remote, sitemap, sitemapTxn, txnOpen, sitemaps, previously_retrieved,
                   shardIdx, entryIdx, max_lastmod, reference_date, calls, before, refreshFetches, shardFetches,
                   visitLog, lostWrites, hansard_transcript>>
    /\ UNCHANGED notDisc

(***************************************************************************)
(* The run is interrupted inside a loop: the process is killed, or         *)
(* driver.get or extract_sitemap_components raises (nothing in             *)
(* init_and_refresh_sitemap catches).  The connection is dropped.          *)
(***************************************************************************)
DiscInterrupt ==
    /\ discPc \in {"init", "init_write", "refresh", "refresh_write"}
    /\ LET db == ConnectionLost(DiscDb)
       IN  /\ txnOpen' = db.open
           /\ sitemap' = db.committed
           /\ sitemapTxn' = db.working
    /\ lostWrites' = IF discPc \in {"init_write", "refresh_write"} THEN entryIdx - 1 ELSE 0
    /\ discPc' = "crashed"
    /\ UNCHANGED <<remote, process_data, sitemaps, previously_retrieved, shardIdx,
                   entryIdx, max_lastmod, reference_date, calls, before, refreshFetches, shardFetches, visitLog,
                   hansard_transcript, clock>>
    /\ UNCHANGED notDisc

DiscNext ==
    \/ DiscStart
    \/ InitSkip
    \/ InitBegin
    \/ InitWrite
    \/ InitCommit
    \/ InitEnd
    \/ RefreshBegin
    \/ RefreshWrite
    \/ RefreshCommit
    \/ RefreshEnd
    \/ DiscInterrupt

(***************************************************************************)
(* The markup normalizer: prepare_transcripts.py process_xml_transcript.   *)
(*                                                                         *)
(* An element of the tree ET.fromstring builds: its tag, its attributes,   *)
(* its children in document order, and its text and tail.  A text is a     *)
(* sequence of tokens, each a run of whitespace or a run of other          *)
(* characters; the string is their concatenation and the empty sequence    *)
(* is None.                                                                *)
(***************************************************************************)
El(tag, attrib, text, kids, tail) ==
    [tag |-> tag, attrib |-> attrib, text |-> text, kids |-> kids, tail |-> tail]

Whitespace == {" ", "\n", "\t"}

\* "".join(tokens)
RECURSIVE JoinTokens(_, _)
JoinTokens(tokens, k) ==
    IF k > Len(tokens) THEN "" ELSE tokens[k] \o JoinTokens(tokens, k + 1)

\* elem.text
ElemText(elem) == IF elem.text = <<>> THEN Null ELSE JoinTokens(elem.text, 1)

\* paragraph.itertext(): the text of the element, then for every child its
\* itertext and its tail
RECURSIVE IterText(_), IterKids(_, _)
IterKids(kids, k) ==
    IF k > Len(kids) THEN <<>>
    ELSE IterText(kids[k]) \o kids[k].tail \o IterKids(kids, k + 1)

IterText(element) == element.text \o IterKids(element.kids, 1)

\* str.split(): the maximal runs of non-whitespace characters
RECURSIVE SplitWords(_, _, _)
SplitWords(tokens, k, cur) ==
    IF k > Len(tokens) THEN (IF cur = "" THEN <<>> ELSE <<cur>>)
    ELSE IF tokens[k] \in Whitespace
    THEN (IF cur = "" THEN <<>> ELSE <<cur>>) \o SplitWords(tokens, k + 1, "")
    ELSE SplitWords(tokens, k + 1, cur \o tokens[k])

\* " ".join(words)
RECURSIVE JoinSpace(_, _)
JoinSpace(words, k) ==
    IF k > Len(words) THEN ""
    ELSE IF k = Len(words) THEN words[k]
    ELSE words[k] \o " " \o JoinSpace(words, k + 1)

\* remove_para_markup
RemoveParaMarkup(paragraph) == JoinSpace(SplitWords(IterText(paragraph), 1, ""), 1)

\* {elem.tag: elem.text for elem in element}: a later child replaces an
\* earlier one of the same tag
DictOf(element) ==
    [tg \in {element.kids[k].tag : k \in DOMAIN element.kids} |->
        ElemText(element.kids[Max({k \in DOMAIN element.kids : element.kids[k].tag = tg})])]

\* element.findall(tag): the direct children of that tag, in document order
FindAll(element, tag) == SelectSeq(element.kids, LAMBDA c : c.tag = tag)

\* element.tag in ("debate"): the right-hand side is the string "debate",
\* so the test is true of every substring of it
InDebateString(tag) ==
    tag \in {"", "d", "e", "b", "a", "t", "de", "eb", "ba", "at", "te", "deb", "eba",
             "bat", "ate", "deba", "ebat", "bate", "debat", "ebate", "debate"}

SubdebateTags ==
    {"subdebate.1", "subdebate.2", "subdebate.3", "subdebate.4", "subdeabte.1",
     "subdebate"}

\* process_debate_info
ProcessDebateInfo(element) ==
    LET infos == IF InDebateString(element.tag)
                 THEN FindAll(element, "debateinfo") \o FindAll(element, "debate.info")
                 ELSE IF element.tag \in SubdebateTags
                 THEN FindAll(element, "subdebateinfo")
                      \o FindAll(element, "subdebateinfo.1")
                 ELSE <<>>
    IN  [i \in 1..Len(infos) |-> DictOf(infos[i])]

\* the unit tags without answer
UnitTagsWithoutAnswer == {"speech", "motionnospeech", "petition", "question"}

\* the tags that start a procedural unit (line 126)
UnitTags == {"speech", "motionnospeech", "petition", "question", "answer"}

\* no tag is left out of the traversal
SkipNothing == {}

\* the tags that are not traversed into (line 158)
SkipTags == {"debate.text", "subdebate.text"}

\* TranscriptContext()
NewContext ==
    [debate_info |-> <<>>, enclosing_tags |-> {}, speaker |-> <<>>,
     fragment_number |-> 0, fragment_type |-> Null]

\* the children pushed in document order: the last child ends on top
PushedForward(context, kids) == [k \in 1..Len(kids) |-> <<context, kids[k]>>]

\* reversed(element) pushed with one context: the first child ends on top
Pushed(context, kids) ==
    [k \in 1..Len(kids) |-> <<context, kids[Len(kids) - k + 1]>>]

\* the speaker the paragraph's forked context already holds
ContextSpeaker(context, speaker) == context.speaker

\* the speaker attached to a paragraph without a link of its own (line 185):
\* the walk's local `speaker`, whatever the forked context holds
AttachedSpeaker(context, speaker) == speaker

(***************************************************************************)
(* One iteration of "while to_process" (lines 117-206).  st holds the      *)
(* locals of the walk: to_process, processed, speaker, fragment_number,    *)
(* fragment_type.                                                          *)
(***************************************************************************)
WalkStep(st) ==
    LET top     == st.to_process[Len(st.to_process)]
        context == top[1]
        element == top[2]
        tag     == element.tag
        st1     == [st EXCEPT
                      !.to_process = SubSeq(st.to_process, 1, Len(st.to_process) - 1),
                      !.fragment_number = IF tag \in UnitTags THEN @ + 1 ELSE @,
                      !.fragment_type = IF tag \in UnitTags THEN tag ELSE @]
        new_debate_info == ProcessDebateInfo(element)
        PassThrough(ctx, s) ==
            [s EXCEPT !.to_process =
                @ \o Pushed([ctx EXCEPT !.enclosing_tags = @ \cup {tag}], element.kids)]
    IN  IF new_debate_info # <<>>
        THEN PassThrough([context EXCEPT !.debate_info = @ \o new_debate_info,
                                         !.speaker = <<>>], st1)
        ELSE IF tag = "talker"
        THEN LET speaker == DictOf(element)
             IN  PassThrough([context EXCEPT !.speaker = speaker],
                             [st1 EXCEPT !.speaker = speaker])
        ELSE IF tag \in SkipTags
        THEN st1
        ELSE IF tag \in {"p", "para"}
        THEN LET anchors == FindAll(element, "a")
                 speaker == IF /\ tag = "p"
                               /\ anchors # <<>>
                               /\ "href" \in DOMAIN anchors[1].attrib
                            THEN ("name.id" :> anchors[1].attrib["href"])
                            ELSE AttachedSpeaker(context, st1.speaker)
             IN  [st1 EXCEPT
                    !.speaker = speaker,
                    !.processed = Append(@,
                        [debate_info     |-> context.debate_info,
                         enclosing_tags  |-> context.enclosing_tags,
                         speaker         |-> speaker,
                         fragment_number |-> st1.fragment_number,
                         fragment_type   |-> st1.fragment_type,
                         text            |-> RemoveParaMarkup(element)])]
        ELSE PassThrough(context, st1)

RECURSIVE Walk(_)
Walk(st) == IF st.to_process = <<>> THEN st.processed ELSE Walk(WalkStep(st))

(***************************************************************************)
(* process_xml_transcript on a parsed tree: the 5-tuple, or the TypeError  *)
(* of iterating root.find("session.header") when there is none.           *)
(***************************************************************************)
ProcessXmlTranscript(transcript_key, transcript_pdf_url, root) ==
    LET session == FindAll(root, "session.header")
    IN  IF session = <<>>
        THEN [raised |-> TRUE]
        ELSE [raised |-> FALSE,
              url |-> transcript_key,
              transcript_pdf_url |-> transcript_pdf_url,
              transcript_type |-> "xml",
              session_info |-> DictOf(session[1]),
              paragraphs |-> Walk([to_process |-> << <<NewContext, root>> >>,
                                   processed |-> <<>>,
                                   speaker |-> <<>>,
                                   fragment_number |-> 0,
                                   fragment_type |-> Null])]

(***************************************************************************)
(* The documents the normalizer is run on.  A document is the root element *)
(* hansard, with or without its session.header, followed by up to MaxKids  *)
(* subtrees taken in any order, with repetition, from Subtrees.            *)
(***************************************************************************)
MaxKids == 2

Leaf(tag, text) == El(tag, <<>>, text, <<>>, <<>>)

Node(tag, kids) == El(tag, <<>>, <<>>, kids, <<>>)

Talker(id, name) == Node("talker", <<Leaf("name.id", <<id>>), Leaf("name", <<name>>)>>)

Info(tag, title) == Node(tag, <<Leaf("title", <<title>>)>>)

Subtrees ==
    << \* a debate, one speech: the talker, then two paragraphs
       Node("debate", <<Info("debateinfo", "Bills"),
                        Node("speech", <<Talker("ab1", "A"),
                                         Leaf("p", <<"a1">>),
                                         Leaf("p", <<"a2", " ", "a3">>)>>)>>),
       \* a debate with a subdebate; the talker sits inside talk.start
       Node("debate", <<Info("debateinfo", "Bills"),
                        Node("subdebate.1",
                             <<Info("subdebateinfo", "Second Reading"),
                               Node("speech",
                                    <<Node("talk.start", <<Talker("Cd2", "C"),
                                                           Leaf("para", <<"b1">>)>>),
                                      Leaf("para", <<"\n", "b2", " ", "\t", "b3", "\n">>)>>)>>)>>),
       \* a question whose first paragraph links its speaker, and an answer
       Node("debate", <<Info("debateinfo", "Questions"),
                        Node("question",
                             <<El("p", <<>>, <<>>,
                                  <<El("a", ("href" :> "ef3"), <<"E">>, <<>>, <<" ", "c1">>)>>,
                                  <<>>),
                               Leaf("p", <<"c2">>)>>),
                        Node("answer", <<Leaf("p", <<"c3">>)>>)>>),
       \* a debate with the older debate.info child, a debate.text and a
       \* paragraph that no speaker precedes
       Node("debate", <<Info("debate.info", "Questions"),
                        Node("debate.text", <<Leaf("p", <<"d0">>)>>),
                        Leaf("p", <<"d1">>)>>),
       \* a petition whose paragraph holds another paragraph
       Node("debate", <<Info("debateinfo", "Petitions"),
                        Node("petition",
                             <<El("p", <<>>, <<"e1", " ">>,
                                  <<El("p", <<>>, <<"e2">>, <<>>, <<"\n", "e3">>)>>,
                                  <<>>)>>)>>),
       \* a paragraph directly under the root
       Leaf("p", <<"f1">>),
       \* a speech whose talker has no children; the paragraph's anchor has
       \* no href
       Node("speech", <<Node("talker", <<>>),
                        El("p", <<>>, <<"g1">>,
                           <<El("a", ("type" :> "x"), <<"g2">>, <<>>, <<>>)>>, <<>>)>>),
       \* a second debate titled Bills, its paragraph has no speaker of its own
       Node("debate", <<Info("debateinfo", "Bills"), Leaf("p", <<"h1">>)>>),
       \* a debate whose debateinfo has no title, a subdebate.text and a
       \* motionnospeech
       Node("debate", <<Node("debateinfo", <<Leaf("type", <<"x">>)>>),
                        Node("subdebate.text", <<Leaf("para", <<"i0">>)>>),
                        Node("motionnospeech", <<Talker("ab1", "A"),
                                                 Leaf("para", <<"i1">>)>>)>>),
       \* a subdebate tag as misspelt in the archive, under the root
       Node("subdeabte.1", <<Info("subdebateinfo.1", "Adjournment"),
                             Leaf("para", <<"j1">>),
                             Node("interjection", <<Talker("Cd2", "C"),
                                                    Leaf("para", <<"j2">>)>>),
                             Leaf("para", <<"j3">>)>>),
       \* a debate element inside a debate element
       Node("debate", <<Info("debateinfo", "Bills"),
                        Node("debate", <<Info("debateinfo", "Questions"),
                                         Leaf("p", <<"k1">>)>>)>>),
       \* a petition without paragraphs, then a speech
       Node("debate", <<Info("debateinfo", "Petitions"),
                        Node("petition", <<Leaf("presenter", <<"A">>)>>),
                        Node("speech", <<Talker("ef3", "E"),
                                         Leaf("para", <<"l1">>)>>)>>) >>

SessionHeader ==
    Node("session.header", <<Leaf("date", <<"d1">>), Leaf("chamber", <<"House">>)>>)

SubtreeChoices == UNION {[1..n -> 1..Len(Subtrees)] : n \in 0..MaxKids}

Document(header, choice) ==
    Node("hansard", (IF header THEN <<SessionHeader>> ELSE <<>>)
                    \o [k \in 1..Len(choice) |-> Subtrees[choice[k]]])

Documents == {Document(header, choice) : header \in BOOLEAN, choice \in SubtreeChoices}

(***************************************************************************)
(* The normalizer run on one document: process_xml_transcript, then        *)
(* insert_processed_xml_transcript_detail on what it returned, into empty  *)
(* tables with session_id 1 and next_debate 1 (lines 546-547, 576-592).    *)
(***************************************************************************)
NormInit ==
    /\ xml_root \in Documents
    /\ normPc = "parsed"
    /\ walked = Null
    /\ detail_db = EmptyCorpus

\* the normalizer's variables while another subsystem is checked
NormIdle ==
    /\ xml_root = Null
    /\ normPc = "idle"
    /\ walked = Null
    /\ detail_db = EmptyCorpus

ProcessTranscript ==
    /\ normPc = "parsed"
    /\ walked' = ProcessXmlTranscript(1, 1, xml_root)
    /\ normPc' = IF walked'.raised THEN "raised" ELSE "walked"
    /\ UNCHANGED <<xml_root, detail_db, notNorm>>

InsertDetail ==
    /\ normPc = "walked"
    /\ detail_db' = InsertProcessedXmlTranscriptDetail(EmptyCorpus, 1, 1, walked.url,
                        walked.transcript_pdf_url, walked.session_info,
                        walked.paragraphs).db
    /\ normPc' = "inserted"
    /\ UNCHANGED <<xml_root, walked, notNorm>>

NormNext ==
    \/ ProcessTranscript
    \/ InsertDetail

(***************************************************************************)
(* The legacy dialect: prepare_transcripts.py process_sgml_transcript.     *)
(*                                                                         *)
(* A document is a sequence of symbols.  A character of text is a symbol   *)
(* (a one-character string; a character outside ASCII is written by its    *)
(* code point, "U+00BD").  A markup tag is one symbol, "<name>" or         *)
(* "</name>", except the opening of the root, which is the two symbols     *)
(* "<HANSARD" and ">" because chop_sgml_doctype cuts between them.          *)
(***************************************************************************)
\* sgml_entity_replacements, in the order the dict literal lists its keys
SgmlEntityReplacements ==
    << [key |-> <<"&", "h", "a", "l", "f", ";">>, value |-> <<"U+00BD">>],
       [key |-> <<"&", "f", "r", "a", "c", "3", "4", ";">>, value |-> <<"U+00BE">>],
       [key |-> <<"&", "b", "u", "l", "l", ";">>, value |-> <<"U+2022">>],
       [key |-> <<"&", "y", "e", "n", ";">>, value |-> <<"U+00A5">>],
       [key |-> <<"&", "m", "d", "a", "s", "h", ";">>, value |-> <<"U+2014">>],
       [key |-> <<"&", "c", "e", "n", "t", ";">>, value |-> <<"U+00A2">>],
       [key |-> <<"&", "f", "r", "a", "c", "2", "3", ";">>, value |-> <<"U+2154">>],
       [key |-> <<"&", "h", "y", "p", "h", "e", "n", ";">>, value |-> <<"-">>],
       [key |-> <<"&", "f", "r", "a", "c", "1", "3", ";">>, value |-> <<"U+2153">>],
       [key |-> <<"&", "d", "a", "g", "g", "e", "r", ";">>, value |-> <<"U+2020">>],
       [key |-> <<"&", "p", "o", "u", "n", "d", ";">>, value |-> <<"U+00A3">>],
       [key |-> <<"&", "s", "u", "p", "2", ";">>, value |-> <<"U+00B2">>],
       [key |-> <<"&", "f", "r", "a", "c", "1", "4", ";">>, value |-> <<"U+00BC">>],
       [key |-> <<"&", "r", "s", "q", "u", "o", ";">>, value |-> <<"U+2019">>],
       [key |-> <<"&">>, value |-> <<"&", "a", "m", "p", ";">>] >>

\* the named character references of the table: every key but the
\* ampersand itself
NamedReferences == {SgmlEntityReplacements[i].key : i \in 1..(Len(SgmlEntityReplacements) - 1)}

\* the alternation with the ampersand in front of the named references
AmpersandFirst ==
    <<SgmlEntityReplacements[Len(SgmlEntityReplacements)].key>>
    \o [i \in 1..(Len(SgmlEntityReplacements) - 1) |-> SgmlEntityReplacements[i].key]

\* entity_detector: "|".join(sgml_entity_replacements.keys()), the
\* alternatives in key order
EntityDetector == [i \in 1..Len(SgmlEntityReplacements) |-> SgmlEntityReplacements[i].key]

\* the symbols of s from position k on begin with w
StartsAt(s, k, w) == k + Len(w) - 1 <= Len(s) /\ SubSeq(s, k, k + Len(w) - 1) = w

\* the match of an alternation at position k: the first alternative, in
\* order, that matches there; <<>> when none does
MatchAt(alternatives, s, k) ==
    LET ms == {i \in 1..Len(alternatives) : StartsAt(s, k, alternatives[i])}
    IN  IF ms = {} THEN <<>> ELSE alternatives[Min(ms)]

\* replace_sgml_entity: sgml_entity_replacements[match.group(0)]
ReplaceSgmlEntity(match) ==
    LET i == CHOOSE j \in 1..Len(SgmlEntityReplacements) : SgmlEntityReplacements[j].key = match
    IN  SgmlEntityReplacements[i].value

\* entity_detector.sub(replace_sgml_entity, s): one scan from the left, the
\* non-overlapping matches replaced, the replacements not scanned again
RECURSIVE EntitySub(_, _)
EntitySub(s, k) ==
    IF k > Len(s) THEN <<>>
    ELSE LET m == MatchAt(EntityDetector, s, k)
         IN  IF m = <<>> THEN <<s[k]>> \o EntitySub(s, k + 1)
             ELSE ReplaceSgmlEntity(m) \o EntitySub(s, k + Len(m))

\* the tag names of remove_tags (lines 298-320)
RemoveTagNames ==
    << <<"c", "h", "a", "m", "b", "e", "r", ".", "x", "s", "c", "r", "i", "p", "t">>,
       <<"d", "e", "b", "a", "t", "e">>,
       <<"d", "e", "b", "a", "t", "e", ".", "s", "u", "b", "1">>,
       <<"l", "i", "n", "k">>,
       <<"m", "e", "t", "a">>,
       <<"p", "a", "r", "a">>,
       <<"q", "u", "e", "s", "t", "i", "o", "n">>,
       <<"r", "o", "w">>,
       <<"e", "m", "s", "g">>,
       <<"g", "r", "a", "p", "h", "i", "c">>,
       <<"q", "w", "n">>,
       <<"t", "a", "l", "k", ".", "s", "t", "a", "r", "t">>,
       <<"s", "p", "e", "e", "c", "h">>,
       <<"e", "m", "p", "h", "a", "s", "i", "s">>,
       <<"s", "p", "a", "n", "s", "p", "e", "c">>,
       <<"p", "r", "o", "c", "t", "e", "x", "t">>,
       <<"s", "s", "o">>,
       <<"i", "n", "t", "e", "r", "j", "e", "c", "t">>,
       <<"b", "r", "e", "a", "k">>,
       <<"c", "o", "l", "s", "p", "e", "c">>,
       <<"t", "a", "b">> >>

\* the markup tags of the documents: what stands between "<" and ">",
\* in lower case (the pattern is compiled with re.IGNORECASE)
MarkupSymbols ==
    ("<!DOCTYPE>" :> <<"!", "d", "o", "c", "t", "y", "p", "e">>) @@ ("</HANSARD>" :> <<"/", "h", "a", "n", "s", "a", "r", "d">>)
    @@ ("<emphasis>" :> <<"e", "m", "p", "h", "a", "s", "i", "s">>) @@ ("<PARA>" :> <<"p", "a", "r", "a">>)
    @@ ("<title>" :> <<"t", "i", "t", "l", "e">>) @@ ("</title>" :> <<"/", "t", "i", "t", "l", "e">>)

\* the alternative of remove_tags for one tag name, "</?tag.*?>", matched
\* against a markup symbol: "<", an optional "/", the name, then anything up
\* to the first ">"
TagPatternMatches(tag, sym) ==
    /\ sym \in DOMAIN MarkupSymbols
    /\ LET inner == MarkupSymbols[sym]
       IN  \/ StartsAt(inner, 1, tag)
           \/ (inner # <<>> /\ inner[1] = "/" /\ StartsAt(inner, 2, tag))

\* remove_tags.sub("", s)
RemoveTagsSub(s) ==
    SelectSeq(s, LAMBDA sym :
        ~\E i \in 1..Len(RemoveTagNames) : TagPatternMatches(RemoveTagNames[i], sym))

\* chop_sgml_doctype: start + sgml_str.partition(start)[2]
ChopSgmlDoctype(s) ==
    LET at == {k \in 1..Len(s) : s[k] = "<HANSARD"}
    IN  <<"<HANSARD">> \o (IF at = {} THEN <<>> ELSE SubSeq(s, Min(at) + 1, Len(s)))

\* the element tags of s from position k on are balanced, `open` being the
\* names of the elements open at k, innermost last
RECURSIVE Balanced(_, _, _)
Balanced(s, k, open) ==
    IF k > Len(s) THEN open = <<>>
    ELSE IF s[k] \notin DOMAIN MarkupSymbols THEN Balanced(s, k + 1, open)
    ELSE LET inner == MarkupSymbols[s[k]]
         IN  IF inner[1] = "/"
             THEN /\ open # <<>>
                  /\ open[Len(open)] = SubSeq(inner, 2, Len(inner))
                  /\ Balanced(s, k + 1, SubSeq(open, 1, Len(open) - 1))
             ELSE inner[1] # "!" /\ Balanced(s, k + 1, Append(open, inner))

\* every ampersand of s begins the reference &amp;
EntitiesDefined(s) == \A k \in 1..Len(s) : s[k] = "&" => StartsAt(s, k, <<"&", "a", "m", "p", ";">>)

\* ET.fromstring(transformed) returns an element: one root element, its
\* tags balanced, nothing after it, every entity reference defined
WellFormed(s) ==
    /\ Len(s) >= 3
    /\ s[1] = "<HANSARD" /\ s[2] = ">"
    /\ s[Len(s)] = "</HANSARD>"
    /\ \A k \in 3..(Len(s) - 1) : s[k] # "</HANSARD>" /\ s[k] # "<HANSARD"
    /\ Balanced(s, 3, <<<<"h", "a", "n", "s", "a", "r", "d">>>>)
    /\ EntitiesDefined(s)

(***************************************************************************)
(* The documents process_sgml_transcript is run on: with or without the    *)
(* doctype declaration, with the root element closed, left open or         *)
(* missing, and in between up to MaxPieces pieces of BodyPieces in any     *)
(* order, with repetition.                                                 *)
(***************************************************************************)
MaxPieces == 2

BodyPieces ==
    << <<"&", "h", "a", "l", "f", ";">>,
       <<"&", "m", "d", "a", "s", "h", ";">>,
       <<"&">>,
       <<"&", "h", "a", "l">>,
       <<"&", "h", "a", "l", "<emphasis>", "f", ";">>,
       <<"<emphasis>">>,
       <<"&", "a", "m", "p", ";">>,
       <<"x">>,
       <<"<title>", "T", "</title>">>,
       <<"<PARA>">> >>

PieceChoices == UNION {[1..n -> 1..Len(BodyPieces)] : n \in 0..MaxPieces}

RECURSIVE Body(_, _)
Body(choice, k) ==
    IF k > Len(choice) THEN <<>> ELSE BodyPieces[choice[k]] \o Body(choice, k + 1)

SgmlDocument(doctype, form, choice) ==
    (IF doctype THEN <<"<!DOCTYPE>">> ELSE <<>>)
    \o (IF form = "rootless" THEN <<>> ELSE <<"<HANSARD", ">">>)
    \o Body(choice, 1)
    \o (IF form = "closed" THEN <<"</HANSARD>">> ELSE <<>>)

SgmlDocuments ==
    {SgmlDocument(doctype, form, choice) :
        doctype \in BOOLEAN, form \in {"closed", "open", "rootless"},
        choice \in PieceChoices}

SgmlInit ==
    /\ sgml_str \in SgmlDocuments
    /\ sgmlPc = "start"
    /\ remove_doctype = <<>>
    /\ removed_unclosed_tags = <<>>
    /\ transformed = <<>>

\* the legacy dialect's variables while another subsystem is checked
SgmlIdle ==
    /\ sgml_str = <<>>
    /\ sgmlPc = "idle"
    /\ remove_doctype = <<>>
    /\ removed_unclosed_tags = <<>>
    /\ transformed = <<>>

\* line 373
SgmlChop ==
    /\ sgmlPc = "start"
    /\ remove_doctype' = ChopSgmlDoctype(sgml_str)
    /\ sgmlPc' = "chopped"
    /\ UNCHANGED <<sgml_str, removed_unclosed_tags, transformed, notSgml>>

\* line 376
SgmlRemoveTags ==
    /\ sgmlPc = "chopped"
    /\ removed_unclosed_tags' = RemoveTagsSub(remove_doctype)
    /\ sgmlPc' = "removed"
    /\ UNCHANGED <<sgml_str, remove_doctype, transformed, notSgml>>

\* line 378
SgmlReplaceEntities ==
    /\ sgmlPc = "removed"
    /\ transformed' = EntitySub(removed_unclosed_tags, 1)
    /\ sgmlPc' = "transformed"
    /\ UNCHANGED <<sgml_str, remove_doctype, removed_unclosed_tags, notSgml>>

\* lines 380-382: ET.fromstring raises ParseError, or the 5-tuple is returned
SgmlParse ==
    /\ sgmlPc = "transformed"
    /\ sgmlPc' = IF WellFormed(transformed) THEN "returned" ELSE "raised"
    /\ UNCHANGED <<sgml_str, remove_doctype, removed_unclosed_tags, transformed, notSgml>>

SgmlNext ==
    \/ SgmlChop
    \/ SgmlRemoveTags
    \/ SgmlReplaceEntities
    \/ SgmlParse

(***************************************************************************)
(* The specifications.                                                     *)
(***************************************************************************)
(***************************************************************************)
(* Candidate identification: download_transcripts.py                       *)
(* identify_transcripts_to_retrieve, as the script runs it between         *)
(* init_and_refresh_sitemap and retrieve_transcripts (lines 461-463).      *)
(*                                                                         *)
(* The urls of the index by what the function reads of them: whether the   *)
(* text 'hansard' occurs in the url and the "/"-separated components of    *)
(* the quoted Id of its query parameter (Null: the url has no query        *)
(* parameter).                                                             *)
(***************************************************************************)
SitemapUrls ==
    << [hansard |-> TRUE,  query |-> <<"chamber", "hansardr", "2010-02-02", "0000">>],
       [hansard |-> TRUE,  query |-> <<"chamber", "hansardr", "2010-02-02", "0001">>],
       [hansard |-> TRUE,  query |-> <<"chamber", "hansards", "2010-02-03", "0000">>],
       [hansard |-> FALSE, query |-> <<"legislation", "bills", "r4201", "0000">>],
       [hansard |-> TRUE,  query |-> Null] >>

\* the number of days the clock of the model runs over
MaxDays == 2

\* SELECT url, lastmod from sitemap where instr(url, 'hansard')
PossibleTranscripts(table) == {u \in DOMAIN table : SitemapUrls[u].hansard}

\* parse_qs(url_params)["query"] raises KeyError for a url without the parameter
QueryRaises(url) == SitemapUrls[url].query = Null

\* page_no = query_id_components[-1]
PageNo(url) == SitemapUrls[url].query[Len(SitemapUrls[url].query)]

\* the lastmod dates a shard can list for url on the day of ts: "1999-12-31",
\* "2000-01-01" and every later date up to that day (for a url that the
\* function does not upsert, whose lastmod it never reads: one date)
LastmodDates(url, ts) ==
    IF SitemapUrls[url].hansard /\ ~QueryRaises(url) /\ PageNo(url) = "0000"
    THEN {DateOf(d) : d \in (0 - 1)..DayOfTime(ts)}
    ELSE {DateOf(1)}

\* an insert that overwrites the row of a url the table already holds
InsertTranscriptOrReplace(table, url) == (url :> NewRow(Null)) @@ table

\* INSERT or ignore into hansard_transcript(url, retrieved) values(?, "2000-01-01")
InsertTranscriptOrIgnore(table, url) ==
    IF url \in DOMAIN table THEN table ELSE table @@ (url :> NewRow(Null))

\* UPDATE hansard_transcript set lastmod = ?2 where url = ?1
UpdateLastmod(table, url, lastmod) ==
    [u \in DOMAIN table |->
        IF u = url THEN [table[u] EXCEPT !.lastmod = lastmod] ELSE table[u]]

\* lines 180-203: the loop over the rows of the SELECT
RECURSIVE IdentifyRows(_, _, _)
IdentifyRows(table, index_table, S) ==
    IF S = {} THEN table
    ELSE LET url == CHOOSE u \in S : TRUE
             upserted == UpdateLastmod(InsertTranscriptOrIgnore(table, url), url,
                                       index_table[url].lastmod)
         IN  IdentifyRows(IF PageNo(url) = "0000" THEN upserted ELSE table,
                          index_table, S \ {url})

\* whether the change of the remote document that the index reports with
\* lastmod was made after the instant fetched (FALSE, TRUE or either): the
\* index gives the date of the change only
ChangeAfterFetch(lastmod, fetched) ==
    IF lastmod < DateOf(DayOfTime(fetched)) THEN {FALSE}
    ELSE IF lastmod > fetched THEN {TRUE}
    ELSE BOOLEAN

IdentInit == identPc = "idle" /\ changedSinceFetch = {}

\* the identification's variable while another subsystem is checked
IdentIdle == identPc = "idle" /\ changedSinceFetch = {}

(***************************************************************************)
(* A run of the script begins and init_and_refresh_sitemap commits the     *)
(* visit of a shard that lists url (lines 106-112 and 137-148): the row    *)
(* of the url is replaced.  Runs may be a day apart.                       *)
(***************************************************************************)
IdentObserve ==
    /\ \E now \in {clock, DateOf(DayOfTime(clock) + 1) + 1} :
          /\ DayOfTime(now) <= MaxDays
          /\ clock' = now
          /\ \E url \in DOMAIN SitemapUrls :
                \E lastmod \in LastmodDates(url, now) :
                    /\ sitemap' = ReplaceInto(sitemap, url,
                                              [source_sitemap |-> 1, lastmod |-> lastmod])
                    /\ IF url \in DOMAIN hansard_transcript
                       THEN \E after \in ChangeAfterFetch(lastmod,
                                                          hansard_transcript[url].retrieved) :
                               changedSinceFetch' =
                                   IF after /\ hansard_transcript[url].retrieved > AncientRetrieved
                                   THEN changedSinceFetch \cup {url}
                                   ELSE changedSinceFetch \ {url}
                       ELSE changedSinceFetch' = changedSinceFetch \ {url}
    /\ sitemapTxn' = sitemap'
    /\ identPc' = "discovery"
    /\ UNCHANGED hansard_transcript
    /\ UNCHANGED notIdent

(***************************************************************************)
(* Lines 161-207: identify_transcripts_to_retrieve, one transaction.  An   *)
(* exception ends the script with the transaction open, and nothing of it  *)
(* is committed.                                                           *)
(***************************************************************************)
Identify ==
    /\ identPc = "discovery"
    /\ IF \E url \in PossibleTranscripts(sitemap) : QueryRaises(url)
       THEN /\ identPc' = "raised"
            /\ UNCHANGED hansard_transcript
       ELSE /\ identPc' = "identified"
            /\ hansard_transcript' =
                   IdentifyRows(hansard_transcript, sitemap, PossibleTranscripts(sitemap))
    /\ UNCHANGED <<sitemap, sitemapTxn, clock, changedSinceFetch>>
    /\ UNCHANGED notIdent

(***************************************************************************)
(* Lines 223-228 and 359-382: retrieve_transcripts fetches one record of   *)
(* its SELECT successfully and commits it.                                 *)
(***************************************************************************)
IdentRetrieve ==
    /\ identPc \in {"identified", "retrieved"}
    /\ DayOfTime(Tick(clock)) <= MaxDays
    /\ \E url \in Stale(hansard_transcript) :
          /\ hansard_transcript' =
                [hansard_transcript EXCEPT
                    ![url] = RetrievedRow(hansard_transcript[url].lastmod, clock)]
          /\ changedSinceFetch' = changedSinceFetch \ {url}
    /\ clock' = Tick(clock)
    /\ identPc' = "retrieved"
    /\ UNCHANGED <<sitemap, sitemapTxn>>
    /\ UNCHANGED notIdent

IdentNext ==
    \/ IdentObserve
    \/ Identify
    \/ IdentRetrieve

InitOrch ==
    /\ OrchInit /\ RetrIdle /\ DiscIdle /\ NormIdle /\ SgmlIdle /\ IdentIdle
    /\ hansard_transcript = <<>>
    /\ clock = 1

InitRetr == RetrInit /\ OrchIdle /\ DiscIdle /\ NormIdle /\ SgmlIdle /\ IdentIdle

InitDisc ==
    /\ DiscInit /\ OrchIdle /\ RetrIdle /\ NormIdle /\ SgmlIdle /\ IdentIdle
    /\ hansard_transcript = InitialTranscripts(2, 1)
    /\ clock = DateOf(2 * MaxShards + 1) + 1

SpecOrch == InitOrch /\ [][OrchNext]_vars

(***************************************************************************)
(* The orchestrator under the scheduling the program has: the script is a  *)
(* sequential program that takes its next step whenever it has one, and    *)
(* the pool's processes start a queued call when a process is free and     *)
(* finish the call they run.  One execution of the script is followed.     *)
(***************************************************************************)
OrchStep ==
    \/ OrchStart
    \/ OrchSubmit
    \/ OrchWait
    \/ OrchBatchTask
    \/ OrchBatchEnd
    \/ OrchLoopEnd
    \/ OrchDrainTask
    \/ OrchCommit

OrchFairness ==
    /\ WF_vars(OrchStep)
    /\ WF_vars(WorkerStart)
    /\ WF_vars(WorkerFinish)

OrchLiveNext ==
    \/ OrchStep
    \/ WorkerStart
    \/ WorkerFinish

SpecOrchLive == InitOrch /\ [][OrchLiveNext]_vars /\ OrchFairness

SpecRetr == InitRetr /\ [][RetrNext]_vars

SpecDisc == InitDisc /\ [][DiscNext]_vars

InitNorm ==
    /\ NormInit /\ OrchIdle /\ RetrIdle /\ DiscIdle /\ SgmlIdle /\ IdentIdle
    /\ hansard_transcript = <<>>
    /\ clock = 1

SpecNorm == InitNorm /\ [][NormNext]_vars

InitSgml ==
    /\ SgmlInit /\ OrchIdle /\ RetrIdle /\ DiscIdle /\ NormIdle /\ IdentIdle
    /\ hansard_transcript = <<>>
    /\ clock = 1

SpecSgml == InitSgml /\ [][SgmlNext]_vars

InitIdent ==
    /\ IdentInit /\ OrchIdle /\ RetrIdle /\ DiscIdle /\ NormIdle /\ SgmlIdle
    /\ hansard_transcript = <<>>
    /\ clock = DateOf(1) + 1

SpecIdent == InitIdent /\ [][IdentNext]_vars

(***************************************************************************)
(* Properties of the normalization orchestrator (SpecOrch).                *)
(***************************************************************************)
\* the position of row u among the rows that are dispatched to the pool
DispatchOrdinal(u) == Cardinality({i \in 1..u : ~transcripts[i].doc.ignored})

\* C1: results are committed in ascending dispatch-ordinal order whatever the
\* order in which the workers complete: the transcript that has session_id k
\* is the k-th transcript dispatched.
C1_CommitInOrdinalOrder ==
    orchPc # "start" =>
        \A r \in processed_db.session : r.session_id = DispatchOrdinal(r.url)

\* C2: runs over the same transcripts that differ only in the order in which
\* the workers complete commit identical session, debate and paragraph tables.
C2_RunsCommitSameCorpus == Cardinality(committedCorpora) <= 1

\* C3: a transcript whose markup fails to parse is a per-document outcome: when
\* the run has ended, every other dispatched transcript of the modern dialect
\* has its session in the committed corpus.
C3_ParseFailureIsPerDocument ==
    orchPc \in {"done", "crashed"} =>
        \A i \in DOMAIN transcripts :
            (/\ ~transcripts[i].doc.ignored
             /\ ~transcripts[i].doc.raises
             /\ transcripts[i].doc.type = "xml")
            => \E r \in corpus.session : r.url = i

(***************************************************************************)
(* Properties of the retrieval worker (SpecRetr).                          *)
(***************************************************************************)
\* this step ran an item and the item failed
ItemFailedStep ==
    /\ Len(outcomes') = Len(outcomes) + 1
    /\ outcomes'[Len(outcomes')] = "failed"

NumFailed == Cardinality({k \in DOMAIN outcomes : outcomes[k] = "failed"})

\* the n most recently started items all failed
LastFailed(n) ==
    /\ Len(outcomes) >= n
    /\ \A k \in (Len(outcomes) - n + 1)..Len(outcomes) : outcomes[k] = "failed"

\* C4: for every item, the first included, and an error at any step: the row is
\* unchanged, the failure counter grows by exactly one and, while it is below
\* 10, the run proceeds to the next item.
C4_FailureIsolated ==
    [][ItemFailedStep =>
          /\ hansard_transcript' = hansard_transcript
          /\ failures' = failures + 1
          /\ (failures' < FailureLimit => retrPc' = "loop" /\ itemIdx' = itemIdx + 1)
      ]_vars

\* C5: the failure counter never exceeds 10, and once it is 10 the run has
\* halted: the item started last is the one whose failure brought it to 10.
C5_BreakerHalts ==
    /\ failures <= FailureLimit
    /\ failures = FailureLimit =>
          /\ retrPc \in {"halted", "aborted"}
          /\ outcomes[Len(outcomes)] = "failed"

C5_Witness ==
    /\ retrPc = "halted"
    /\ failures = FailureLimit
    /\ itemIdx < Len(to_retrieve)

\* C6 (as claimed): the breaker halts the batch exactly when the 10 most
\* recently processed items have all failed; failures separated by a committed
\* item do not add up to a halt.
C6_ConsecutiveOnly ==
    /\ retrPc = "halted" => LastFailed(FailureLimit)
    /\ LastFailed(FailureLimit) => retrPc # "loop"

\* C6 (amended): the breaker halts the batch exactly when 10 items of the run
\* have failed, consecutive or not; a committed item between two failures does
\* not reset the count.
C6_CumulativeBreaker ==
    /\ retrPc = "halted" => NumFailed = FailureLimit
    /\ NumFailed >= FailureLimit => retrPc # "loop"

C6_Witness ==
    /\ retrPc = "halted"
    /\ \E k \in (Len(outcomes) - FailureLimit + 1)..Len(outcomes) : outcomes[k] = "ok"

\* C7: a step in which an item fails, or in which the batch is halted, changes
\* no row of hansard_transcript: rows committed by earlier items keep their
\* values and rows of items not yet processed are untouched.
C7_FailureChangesNoRow ==
    [][(ItemFailedStep \/ (retrPc = "loop" /\ retrPc' \in {"halted", "aborted"}))
          => hansard_transcript' = hansard_transcript]_vars

\* an item failed at its commit, after its UPDATE, and after an earlier item
\* of the run was committed; rows are left to process
C7_Witness ==
    /\ Len(outcomes) >= 2
    /\ outcomes[Len(outcomes)] = "failed"
    /\ lastFailStep = "commit"
    /\ \E k \in DOMAIN outcomes : outcomes[k] = "ok"
    /\ itemIdx <= Len(to_retrieve)

(***************************************************************************)
(* Properties of the discovery crawler (SpecDisc).                         *)
(***************************************************************************)
\* C8: a call that finds fewer shards than the floor aborts before any
\* mutation: sitemap, process_data and hansard_transcript are as before the
\* call, on a first call as on a later one.
C8_GuardLeavesStoreUnmodified ==
    [][(calls' = calls + 1 /\ discPc' = "fatal") =>
          /\ sitemap' = sitemap
          /\ process_data' = process_data
          /\ hansard_transcript' = hansard_transcript
      ]_vars

\* C9: a call on an index with fewer shards than the floor ends with the fatal
\* error (or with the failure to fetch the root), fetches no shard, and no
\* sitemap row is inserted, overwritten or removed.
C9_GuardFetchesNothing ==
    [][(calls' = calls + 1 /\ Len(remote') < SitemapFloor) =>
          /\ discPc' \in {"fatal", "crashed"}
          /\ sitemap' = sitemap
          /\ sitemapTxn' = sitemapTxn
          /\ shardFetches' = <<>>
      ]_vars

\* the guard tripped on a call made after an earlier call filled the sitemap
C9_Witness ==
    /\ discPc = "fatal"
    /\ Len(remote) < SitemapFloor
    /\ DOMAIN sitemap # {}

\* C10: in the init and in the refresh phase the committed sitemap changes
\* only by all the entries of the visited shard at once; a step that
\* interrupts the run leaves it as committed.
C10_ShardCommitAtomic ==
    [][sitemap' # sitemap =>
          /\ discPc \in {"init_write", "refresh_write"}
          /\ sitemap' = ApplyEntries(sitemap, CurrentShard,
                                     EntriesOf(remote, CurrentShard), 1)
      ]_vars

\* the run was interrupted after the first of a shard's two entries was written
C10_Witness ==
    /\ discPc = "crashed"
    /\ lostWrites = 1
    /\ Len(EntriesOf(remote, CurrentShard)) = 2
    /\ DOMAIN sitemap # {}

\* C11: in a call made after an interrupted one, the init phase fetches no
\* shard whose visit an earlier call committed, be it a shard that yielded no
\* entries or one whose entries were later overwritten under another name.
C11_InitRepeatsNoCommittedVisit ==
    [][(before.pc = "crashed" /\ discPc = "init" /\ discPc' = "init_write")
          => CurrentShard \notin visitLog]_vars

\* the shards in the order reversed(sitemaps) yields them: newest first
NewestFirst == [k \in 1..Len(sitemaps) |-> sitemaps[Len(sitemaps) - k + 1]]

\* the latest lastmod the index lists in a shard; below every date for a
\* shard that lists nothing
ShardMax(name) ==
    LET es == EntriesOf(remote, name)
    IN  IF Len(es) = 0 THEN -1 ELSE Max({es[k].lastmod : k \in 1..Len(es)})

\* last_refresh_time minus 3 days, as an instant
RefreshCutoff == process_data["last_refresh_time"] - RefreshDays * DayTicks

\* C12: the refresh phase fetches the shards newest first, each once, goes on
\* to the next shard only after a shard whose latest lastmod is after the
\* cutoff (last_refresh_time minus 3 days), and stops right after committing
\* the first shard whose latest lastmod is at or before the cutoff (or when
\* every shard was fetched): no shard older than that one is fetched.
C12_RefreshStopsAtCutoff ==
    [][(discPc \in {"refresh", "refresh_write"}) =>
          /\ (refreshFetches' # refreshFetches) =>
                (/\ refreshFetches' = SubSeq(NewestFirst, 1, Len(refreshFetches) + 1)
                 /\ \A k \in 1..Len(refreshFetches) :
                       ShardMax(refreshFetches[k]) > RefreshCutoff)
          /\ (discPc = "refresh_write" /\ discPc' \in {"refresh", "done"}) =>
                (discPc' = "done" <=> ShardMax(CurrentShard) <= RefreshCutoff)
          /\ (discPc = "refresh" /\ discPc' = "done") =>
                (refreshFetches = NewestFirst)
      ]_vars

\* the refresh loop stopped at the newest shard and left an older one unfetched
C12_Witness ==
    /\ discPc = "done"
    /\ Len(refreshFetches) >= 1
    /\ Len(refreshFetches) < Len(sitemaps)
    /\ EntriesOf(remote, refreshFetches[Len(refreshFetches)]) # <<>>

\* C13: a call that runs to completion against the index the previous,
\* completed call saw leaves every row of the store as it was before the call:
\* the sitemap rows and the process_data rows (discovery writes no other table).
C13_SecondRunChangesNoRow ==
    (discPc = "done" /\ before.pc = "done" /\ before.remote = remote) =>
        /\ sitemap = before.sitemap
        /\ process_data = before.process_data

(***************************************************************************)
(* Properties of the retrieval worker (SpecRetr), continued.               *)
(***************************************************************************)
\* C14: a run requests only rows with retrieved < lastmod, each at most once
\* and in ascending lastmod order; when the run has walked its whole list,
\* every row it did not request has retrieved >= lastmod.
C14_AttemptsExactlyStale ==
    /\ [](/\ \A j, k \in DOMAIN fetchLog : j < k =>
                /\ fetchLog[j] # fetchLog[k]
                /\ hansard_transcript[fetchLog[j]].lastmod
                      <= hansard_transcript[fetchLog[k]].lastmod
          /\ retrPc = "done" =>
                \A u \in DOMAIN hansard_transcript :
                    (\A k \in DOMAIN fetchLog : fetchLog[k] # u) =>
                        hansard_transcript[u].retrieved >= hansard_transcript[u].lastmod)
    /\ [][fetchLog' # fetchLog =>
             LET u == fetchLog'[Len(fetchLog')]
             IN  hansard_transcript[u].retrieved < hansard_transcript[u].lastmod]_vars

\* a run walked its list in an order that is not the url order and left out
\* a row that an earlier run had retrieved after its lastmod
C14_Witness ==
    /\ retrPc = "done"
    /\ Len(fetchLog) >= 2
    /\ fetchLog[1] > fetchLog[2]
    /\ \E u \in DOMAIN hansard_transcript : \A k \in DOMAIN fetchLog : fetchLog[k] # u

(***************************************************************************)
(* Properties of the normalization orchestrator (SpecOrch), continued.     *)
(***************************************************************************)
\* C15: at every moment the transcripts dispatched to the pool and not yet
\* collected by the orchestrator number at most the size of the worker pool.
C15_InFlightAtMostPoolSize ==
    Cardinality(tasks_in_flight \cup completed) <= PoolWorkers

(***************************************************************************)
(* Properties of the markup normalizer (SpecNorm).                         *)
(***************************************************************************)
\* the walk has returned: walked holds the 5-tuple
Returned == normPc \in {"walked", "inserted"}

IsParagraph(element) == element.tag \in {"p", "para"}

\* the elements of a tree in document order: the element, then its children
\* left to right, each with its own subtree
RECURSIVE PreOrder(_), PreOrderKids(_, _)
PreOrderKids(kids, k) ==
    IF k > Len(kids) THEN <<>> ELSE PreOrder(kids[k]) \o PreOrderKids(kids, k + 1)

PreOrder(element) == <<element>> \o PreOrderKids(element.kids, 1)

\* the same, without what lies beneath a skipped element or a paragraph
RECURSIVE Traversed(_), TraversedKids(_, _)
TraversedKids(kids, k) ==
    IF k > Len(kids) THEN <<>> ELSE Traversed(kids[k]) \o TraversedKids(kids, k + 1)

Traversed(element) ==
    <<element>> \o (IF element.tag \in SkipTags \/ IsParagraph(element)
                    THEN <<>> ELSE TraversedKids(element.kids, 1))

\* the paragraph elements the walk reaches, in document order
ReachedParagraphs(root) == SelectSeq(Traversed(root), IsParagraph)

\* C16: the facts are emitted in document order (pre-order, children left to
\* right), and the paragraph rows of the session carry sequence_number 0, 1,
\* 2, ... in that order: one row per fact, the row numbered k - 1 holding the
\* k-th fact in document order.
C16_FactsInDocumentOrder ==
    LET elems == ReachedParagraphs(xml_root)
    IN  /\ Returned =>
              /\ Len(walked.paragraphs) = Len(elems)
              /\ \A k \in 1..Len(elems) :
                     walked.paragraphs[k].text = RemoveParaMarkup(elems[k])
        /\ normPc = "inserted" =>
              /\ Cardinality(detail_db.paragraph) = Len(elems)
              /\ \A k \in 1..Len(elems) :
                     \E r \in detail_db.paragraph :
                        /\ r.sequence_number = k - 1
                        /\ r.session_id = 1
                        /\ r.paragraph_text = RemoveParaMarkup(elems[k])

\* a document of two different subtrees, four facts or more, inserted
C16_Witness ==
    /\ normPc = "inserted"
    /\ Len(xml_root.kids) = 3
    /\ xml_root.kids[2] # xml_root.kids[3]
    /\ Len(walked.paragraphs) >= 4
    /\ \A j, k \in 1..Len(walked.paragraphs) :
           j # k => walked.paragraphs[j].text # walked.paragraphs[k].text

\* the number of p and para elements in a tree, wherever they sit
ParagraphsAnywhere(root) == Len(SelectSeq(PreOrder(root), IsParagraph))

\* the number of p and para elements of a tree that lie neither beneath a
\* debate.text or subdebate.text element nor beneath another p or para
RECURSIVE OutermostParagraphs(_), OutermostParagraphsOf(_, _)
OutermostParagraphsOf(kids, k) ==
    IF k > Len(kids) THEN 0
    ELSE OutermostParagraphs(kids[k]) + OutermostParagraphsOf(kids, k + 1)

OutermostParagraphs(element) ==
    IF element.tag \in {"p", "para"} THEN 1
    ELSE IF element.tag \in {"debate.text", "subdebate.text"} THEN 0
    ELSE OutermostParagraphsOf(element.kids, 1)

\* C17 as stated: the number of facts the walk emits equals the number of p
\* and para elements in the tree, wherever they sit, those under a skipped
\* element and those under another paragraph included.
C17_FactPerParagraphAnywhere ==
    Returned => Len(walked.paragraphs) = ParagraphsAnywhere(xml_root)

\* C17 amended: the number of facts the walk emits equals the number of p and
\* para elements that lie neither beneath a debate.text or subdebate.text
\* element nor beneath another p or para element.
C17_FactPerOutermostParagraph ==
    Returned => Len(walked.paragraphs) = OutermostParagraphs(xml_root)

\* a document with a paragraph under a skipped element, a paragraph inside a
\* paragraph, and facts emitted
C17_Witness ==
    /\ Returned
    /\ Len(xml_root.kids) = 3
    /\ \E e \in {xml_root.kids[2], xml_root.kids[3]} :
           \E c \in {e.kids[k] : k \in DOMAIN e.kids} :
              c.tag \in {"debate.text", "subdebate.text"} /\ ParagraphsAnywhere(c) > 0
    /\ \E j \in DOMAIN Traversed(xml_root) :
           LET e == Traversed(xml_root)[j]
           IN  IsParagraph(e) /\ ParagraphsAnywhere(e) > 1
    /\ Len(walked.paragraphs) >= 2
    /\ Len(walked.paragraphs) < ParagraphsAnywhere(xml_root)

\* a p element whose first anchor child carries an href
SpeakerLink(element) ==
    /\ element.tag = "p"
    /\ FindAll(element, "a") # <<>>
    /\ "href" \in DOMAIN FindAll(element, "a")[1].attrib

\* the elements that set the active speaker, and what they set it to
SetsSpeaker(element) == element.tag = "talker" \/ SpeakerLink(element)

SpeakerSetBy(element) ==
    IF element.tag = "talker" THEN DictOf(element)
    ELSE ("name.id" :> FindAll(element, "a")[1].attrib["href"])

\* the positions, in the traversal, of the paragraphs that yield the facts
ParagraphPositions(root) ==
    LET tr == Traversed(root)
    IN  SelectSeq([i \in 1..Len(tr) |-> i], LAMBDA i : IsParagraph(tr[i]))

\* the last element at or before position j that set the active speaker
LastSetter(root, j) == Max({i \in 1..j : SetsSpeaker(Traversed(root)[i])})

HasSetter(root, j) == \E i \in 1..j : SetsSpeaker(Traversed(root)[i])

\* C18: once a talker element or a paragraph with a speaker link has set the
\* active speaker, every following paragraph without a link of its own, up
\* to the next element that sets the speaker, is attributed to that speaker.
C18_SpeakerPersists ==
    Returned =>
        LET tr  == Traversed(xml_root)
            pos == ParagraphPositions(xml_root)
        IN  \A k \in 1..Len(walked.paragraphs) :
               (k <= Len(pos) /\ HasSetter(xml_root, pos[k]) /\ ~SpeakerLink(tr[pos[k]])) =>
                  walked.paragraphs[k].speaker = SpeakerSetBy(tr[LastSetter(xml_root, pos[k])])

\* two paragraphs in a row attributed to a talker, and a paragraph without a
\* link attributed to the link of the paragraph before it
C18_Witness ==
    /\ Returned
    /\ LET tr  == Traversed(xml_root)
           pos == ParagraphPositions(xml_root)
       IN  /\ Len(pos) = Len(walked.paragraphs)
           /\ \E k \in 1..(Len(pos) - 1) :
                 /\ ~SpeakerLink(tr[pos[k]]) /\ ~SpeakerLink(tr[pos[k + 1]])
                 /\ HasSetter(xml_root, pos[k])
                 /\ tr[LastSetter(xml_root, pos[k])].tag = "talker"
                 /\ LastSetter(xml_root, pos[k + 1]) = LastSetter(xml_root, pos[k])
                 /\ "name.id" \in DOMAIN walked.paragraphs[k].speaker
                 /\ walked.paragraphs[k + 1].speaker = walked.paragraphs[k].speaker
           /\ \E k \in 2..Len(pos) :
                 /\ SpeakerLink(tr[pos[k - 1]])
                 /\ ~SpeakerLink(tr[pos[k]])
                 /\ walked.paragraphs[k].speaker = SpeakerSetBy(tr[pos[k - 1]])

\* the document that holds, after the session.header, the k-th child of the
\* root alone
Alone(root, k) == [root EXCEPT !.kids = <<root.kids[1], root.kids[k]>>]

\* the number of facts emitted from the children of the root before the k-th
RECURSIVE FactsBefore(_, _)
FactsBefore(root, k) ==
    IF k <= 1 THEN 0
    ELSE FactsBefore(root, k - 1) + OutermostParagraphs(root.kids[k - 1])

\* the context fields of a fact that a node of the tree can change
Carried(fact) ==
    [speaker |-> fact.speaker, debate_info |-> fact.debate_info,
     enclosing_tags |-> fact.enclosing_tags]

\* C19: a change to speaker, debate_info or enclosing_tags is visible only in
\* the subtree of the node that made it: the facts emitted from one child of
\* the root carry the values they carry when that child is the only one, so
\* nothing set in an earlier sibling subtree reaches them.
C19_SiblingSubtreesIsolated ==
    Returned =>
        \A k \in 2..Len(xml_root.kids) :
            LET alone == ProcessXmlTranscript(1, 1, Alone(xml_root, k)).paragraphs
                off   == FactsBefore(xml_root, k)
            IN  \A i \in 1..Len(alone) :
                   Carried(walked.paragraphs[off + i]) = Carried(alone[i])

\* the computed debate titles of the facts, in order
FactTitles == [k \in 1..Len(walked.paragraphs) |-> DebateTitle(walked.paragraphs[k])]

\* the facts whose title differs from that of the fact before, and the first
TitleStarts == {k \in 1..Len(FactTitles) : k = 1 \/ FactTitles[k] # FactTitles[k - 1]}

\* the number of title starts at or before the k-th fact
StartsUpTo(k) == Cardinality({j \in TitleStarts : j <= k})

\* C20: a debate row is created exactly at the first fact and at each fact
\* whose computed title differs from that of the fact before it; the rows are
\* numbered debate_no 1, 2, 3, ... in that order, and every paragraph row
\* points at the debate row created last at or before it.
C20_DebateRowPerTitleChange ==
    normPc = "inserted" =>
        /\ Cardinality(detail_db.debate) = Cardinality(TitleStarts)
        /\ \A k \in TitleStarts :
               \E d \in detail_db.debate :
                  /\ d.debate_no = StartsUpTo(k)
                  /\ d.title = FactTitles[k]
                  /\ d.session_id = 1
        /\ \A k \in 1..Len(FactTitles) :
               \E r \in detail_db.paragraph, d \in detail_db.debate :
                  /\ r.sequence_number = k - 1
                  /\ d.debate_id = r.debate_id
                  /\ d.debate_no = StartsUpTo(k)
                  /\ d.title = FactTitles[k]

\* titles Bills, Bills, Questions: two debate rows, the third paragraph the
\* first of the second
C20_Witness ==
    /\ normPc = "inserted"
    /\ Len(FactTitles) >= 3
    /\ FactTitles[1] = "Bills" /\ FactTitles[2] = "Bills" /\ FactTitles[3] = "Questions"
    /\ Cardinality(detail_db.debate) = 2
    /\ \E r \in detail_db.paragraph, d \in detail_db.debate :
          /\ r.sequence_number = 2
          /\ d.debate_id = r.debate_id
          /\ d.debate_no = 2

\* the elements the walk reaches, in the order it reaches them, each with its
\* path from the root (the child indices)
RECURSIVE Located(_, _), LocatedKids(_, _, _)
LocatedKids(kids, path, k) ==
    IF k > Len(kids) THEN <<>>
    ELSE Located(kids[k], Append(path, k)) \o LocatedKids(kids, path, k + 1)

Located(element, path) ==
    <<[element |-> element, path |-> path]>>
    \o (IF element.tag \in SkipTags \/ IsParagraph(element)
        THEN <<>> ELSE LocatedKids(element.kids, path, 1))

\* the element at path p is the one at path q or an ancestor of it
IsPrefix(p, q) == Len(p) <= Len(q) /\ SubSeq(q, 1, Len(p)) = p

\* the positions before j of the enclosing elements that contribute debate
\* information
DebateAncestors(root, j) ==
    LET loc == Located(root, <<>>)
    IN  {i \in 1..(j - 1) : /\ ProcessDebateInfo(loc[i].element) # <<>>
                            /\ IsPrefix(loc[i].path, loc[j].path)}

\* C26: a paragraph beneath an element that contributes debate information,
\* reached before any talker or speaker-link paragraph inside that element,
\* is emitted with an empty speaker, whatever speaker was active before the
\* element was entered.
C26_SpeakerResetAtDebate ==
    Returned =>
        LET loc == Located(xml_root, <<>>)
            pos == ParagraphPositions(xml_root)
        IN  \A k \in 1..Len(pos) :
               LET j   == pos[k]
                   anc == DebateAncestors(xml_root, j)
               IN  (/\ anc # {}
                    /\ \A i \in (Max(anc) + 1)..j : ~SetsSpeaker(loc[i].element))
                   => walked.paragraphs[k].speaker = <<>>

\* the debate information of the elements at the positions S, outermost first
RECURSIVE InfoAlong(_, _)
InfoAlong(loc, S) ==
    IF S = {} THEN <<>>
    ELSE ProcessDebateInfo(loc[Min(S)].element) \o InfoAlong(loc, S \ {Min(S)})

\* the positions of the enclosing debate elements among the ancestors
DebateDefining(root, j) ==
    {i \in DebateAncestors(root, j) : InDebateString(Located(root, <<>>)[i].element.tag)}

\* C27: debate_info is appended to when a nested subdebate element is
\* entered and reset to empty when a debate element is entered: a fact
\* carries the information of its innermost enclosing debate element followed
\* by that of the subdebate elements between that element and the paragraph,
\* and no heading of any other debate.
C27_DebateInfoResetAtDebate ==
    Returned =>
        LET loc == Located(xml_root, <<>>)
            pos == ParagraphPositions(xml_root)
        IN  \A k \in 1..Len(pos) :
               LET anc  == DebateAncestors(xml_root, pos[k])
                   defs == DebateDefining(xml_root, pos[k])
                   from == IF defs = {} THEN 0 ELSE Max(defs)
               IN  walked.paragraphs[k].debate_info = InfoAlong(loc, {i \in anc : i >= from})

\* the positions, up to j, of the unit-initiating elements the walk reached
UnitsUpTo(root, j) ==
    {i \in 1..j : Traversed(root)[i].tag \in
                     {"speech", "motionnospeech", "petition", "question", "answer"}}

\* C28: a fact's fragment_number is the number of unit-initiating elements
\* (speech, motionnospeech, petition, question, answer) the walk visited
\* before it, its fragment_type the tag of the latest of them; along the
\* facts of a session fragment_number never decreases; a unit without
\* paragraphs uses up a number and raises nothing.
C28_FragmentCountsUnits ==
    Returned =>
        LET tr  == Traversed(xml_root)
            pos == ParagraphPositions(xml_root)
        IN  /\ ~walked.raised
            /\ Len(pos) = Len(walked.paragraphs)
            /\ \A k \in 1..Len(pos) :
                  LET units == UnitsUpTo(xml_root, pos[k])
                  IN  /\ walked.paragraphs[k].fragment_number = Cardinality(units)
                      /\ walked.paragraphs[k].fragment_type =
                            (IF units = {} THEN Null ELSE tr[Max(units)].tag)
            /\ \A k \in 2..Len(pos) :
                  walked.paragraphs[k - 1].fragment_number
                     <= walked.paragraphs[k].fragment_number

\* a petition without paragraphs: its number is carried by no fact, the
\* speech after it has the next one; and a paragraph before any unit
C28_Witness ==
    /\ Returned
    /\ \E n \in 1..Cardinality(UnitsUpTo(xml_root, Len(Traversed(xml_root)))) :
          /\ \A k \in DOMAIN walked.paragraphs : walked.paragraphs[k].fragment_number # n
          /\ \E k \in DOMAIN walked.paragraphs :
                /\ walked.paragraphs[k].fragment_number = n + 1
                /\ walked.paragraphs[k].fragment_type = "speech"
    /\ \E k \in DOMAIN walked.paragraphs : walked.paragraphs[k].fragment_number = 0

(***************************************************************************)
(* Properties of the legacy dialect (SpecSgml).                            *)
(***************************************************************************)
\* the entity substitution has been applied
Substituted == sgmlPc \in {"transformed", "returned", "raised"}

\* the named references that begin at position k of s
ReferencesAt(s, k) == {r \in NamedReferences : StartsAt(s, k, r)}

\* the positions of s where a named reference begins
ReferencePositions(s) == {k \in 1..Len(s) : ReferencesAt(s, k) # {}}

\* s with every named reference replaced by its Unicode equivalent, every
\* other ampersand by &amp;, and all else kept
RECURSIVE ReferencesReplaced(_, _)
ReferencesReplaced(s, k) ==
    IF k > Len(s) THEN <<>>
    ELSE IF ReferencesAt(s, k) # {}
    THEN LET r == CHOOSE r \in ReferencesAt(s, k) : TRUE
         IN  ReplaceSgmlEntity(r) \o ReferencesReplaced(s, k + Len(r))
    ELSE IF s[k] = "&"
    THEN <<"&", "a", "m", "p", ";">> \o ReferencesReplaced(s, k + 1)
    ELSE <<s[k]>> \o ReferencesReplaced(s, k + 1)

\* C21: the entity substitution replaces every occurrence of a named
\* reference of the table by its Unicode equivalent; the ampersand catch-all
\* is applied to the other ampersands only, never to the ampersand of a
\* reference and never to text a substitution produced.
C21_ReferencesReplacedOnce ==
    Substituted =>
        /\ transformed = ReferencesReplaced(removed_unclosed_tags, 1)
        /\ ReferencePositions(transformed) = {}
        /\ Cardinality({k \in 1..Len(transformed) : transformed[k] = "&"})
              = Cardinality({k \in 1..Len(removed_unclosed_tags) :
                               /\ removed_unclosed_tags[k] = "&"
                               /\ k \notin ReferencePositions(removed_unclosed_tags)})

\* a document with a named reference that the removal of a tag put
\* together, and an ampersand that begins no reference
C21_Witness ==
    /\ Substituted
    /\ ReferencePositions(remove_doctype) = {}
    /\ ReferencePositions(removed_unclosed_tags) # {}
    /\ \E k \in 1..Len(transformed) : transformed[k] = "U+00BD"
    /\ \E k \in 1..Len(transformed) : transformed[k] = "&"

(***************************************************************************)
(* Further properties of the discovery crawler (SpecDisc).                 *)
(***************************************************************************)
CheckpointKeys == {"last_refresh_time", "last_full_refresh_time"}

\* the step ends a refresh pass that ran to completion: the loop broke at a
\* shard not newer than the reference date, or ran out of shards
RefreshPassCompletes ==
    /\ discPc' = "done"
    /\ \/ discPc = "refresh" /\ shardIdx > Len(sitemaps)
       \/ /\ discPc = "refresh_write"
          /\ entryIdx > Len(EntriesOf(remote, CurrentShard))
          /\ max_lastmod <= reference_date

\* C22: the checkpoints last_refresh_time and last_full_refresh_time are
\* created once, together, by the first discovery call that gets past the
\* fetch of the index, and are never deleted; from then on
\* last_full_refresh_time keeps its value and last_refresh_time changes only
\* in the step that ends a completed refresh pass, never to an earlier value;
\* a call that aborts leaves it as it was.
C22_CheckpointLifecycle ==
    /\ [](DOMAIN process_data \in {{}, CheckpointKeys})
    /\ [](process_data = <<>> => discPc \in {"idle", "crashed"})
    /\ [][/\ DOMAIN process_data \subseteq DOMAIN process_data'
          /\ (DOMAIN process_data' # DOMAIN process_data) =>
                (calls' = calls + 1 /\ discPc' \in {"init", "fatal"})
          /\ (process_data # <<>>) =>
                /\ process_data'["last_full_refresh_time"]
                      = process_data["last_full_refresh_time"]
                /\ (process_data'["last_refresh_time"] # process_data["last_refresh_time"])
                      => /\ RefreshPassCompletes
                         /\ process_data'["last_refresh_time"]
                               > process_data["last_refresh_time"]
                /\ (discPc' \in {"crashed", "fatal"}) =>
                      process_data'["last_refresh_time"] = process_data["last_refresh_time"]
         ]_vars

\* a second call has completed its refresh pass after a first one did:
\* last_refresh_time has moved on, last_full_refresh_time has not
C22_Witness ==
    /\ discPc = "done"
    /\ calls = 2
    /\ before.pc = "done"
    /\ process_data["last_refresh_time"] > before.process_data["last_refresh_time"]
    /\ process_data["last_full_refresh_time"] = before.process_data["last_full_refresh_time"]
    /\ process_data["last_full_refresh_time"] < before.process_data["last_refresh_time"]

(***************************************************************************)
(* Further properties of the retrieval worker (SpecRetr).                  *)
(***************************************************************************)
\* the step is one iteration of the retrieval loop
ItemStep == fetchLog' # fetchLog

\* the item of the step, the page the site serves for it, whether its
\* record was committed, and the record after the step
StepUrl == fetchLog'[Len(fetchLog')]

StepPage == PageOf(StepUrl, siteShift)

StepCommitted == outcomes'[Len(outcomes')] = "ok"

StepRow == hansard_transcript'[StepUrl]

\* the house the legacy link names for the chamber of a System Id
HouseOfChamber(chamber) ==
    CASE chamber = "hansardr" -> "reps"
      [] chamber = "hansards" -> "senate"
      [] OTHER -> Null

\* the legacy markup link derived from the components of a System Id
LegacyLink(system_id_components) ==
    "https://parlinfo.aph.gov.au/parlInfo/download/"
    \o JoinSlash(SubSeq(system_id_components, 1, Len(system_id_components) - 1), 1)
    \o "/toc_sgml/" \o HouseOfChamber(system_id_components[2])
    \o "%20" \o system_id_components[3] \o ".sgm"

\* C23: per item, a reference page with exactly one toc_unixml link is
\* persisted with dialect xml and that link; a page with none is persisted
\* with dialect sgml and the link derived from the System Id of that page; a
\* page with more than one fails and nothing is persisted for it.
C23_DialectResolution ==
    [][ItemStep =>
          /\ (Len(StepPage.xml_links) = 1 /\ StepCommitted) =>
                /\ StepRow.transcript_markup_type = "xml"
                /\ StepRow.transcript_markup_url = StepPage.xml_links[1]
          /\ (Len(StepPage.xml_links) = 0 /\ StepCommitted) =>
                /\ StepRow.transcript_markup_type = "sgml"
                /\ "System Id" \in DOMAIN StepPage.mapping
                /\ HouseOfChamber(StepPage.mapping["System Id"][2]) # Null
                /\ StepRow.transcript_markup_url = LegacyLink(StepPage.mapping["System Id"])
          /\ (Len(StepPage.xml_links) > 1) =>
                /\ ~StepCommitted
                /\ hansard_transcript' = hansard_transcript
       ]_vars

\* the iteration of the step got as far as the fetch of the markup link, and
\* that fetch timed out
StepTimedOut ==
    /\ ItemStep
    /\ StepPage.fetch = "timeout"
    /\ StepCommitted \/ lastFailStep' \in {"markup", "commit"}

\* the dialect resolved for the page of the step
StepDialect == IF Len(StepPage.xml_links) >= 1 THEN "xml" ELSE "sgml"

\* C24: when the fetch of the markup link times out, the item is committed
\* only if the dialect is sgml and the downloaded file is present, and then
\* with the content of that file as its markup; with that file present and
\* the dialect sgml it fails only if the commit itself does; in every other
\* timeout case the item fails and its row is as before the item.
C24_TimeoutRecovery ==
    [][StepTimedOut =>
          /\ StepCommitted =>
                /\ StepDialect = "sgml"
                /\ StepPage.download # Null
                /\ StepRow.transcript_markup = StepPage.download
                /\ StepRow.retrieved > hansard_transcript[StepUrl].retrieved
          /\ (StepDialect = "sgml" /\ StepPage.download # Null) =>
                (StepCommitted \/ lastFailStep' = "commit")
          /\ ~StepCommitted =>
                /\ hansard_transcript' = hansard_transcript
                /\ failures' = failures + 1
       ]_vars

\* a run in which one timed-out legacy item was committed from its
\* downloaded file and another timed-out item failed
C24_Witness ==
    /\ \E k \in DOMAIN fetchLog :
          LET u == fetchLog[k]
          IN  /\ PageOf(u, siteShift).fetch = "timeout"
              /\ outcomes[k] = "ok"
              /\ hansard_transcript[u].transcript_markup = PageOf(u, siteShift).download
              /\ hansard_transcript[u].transcript_markup_type = "sgml"
    /\ \E k \in DOMAIN fetchLog :
          LET u == fetchLog[k]
          IN  /\ PageOf(u, siteShift).fetch = "timeout"
              /\ PageOf(u, siteShift).download # Null
              /\ outcomes[k] = "failed"
              /\ hansard_transcript[u].retrieved = AncientRetrieved

\* the iteration of the step resolved its links and the fetch of the markup
\* link returned an html page instead of markup
StepWrapped ==
    /\ ItemStep
    /\ StepPage.fetch = "source"
    /\ StepPage.source \in HtmlSources
    /\ StepCommitted \/ lastFailStep' \notin {"ref_page", "resolve"}

\* C25 as stated: a wrapped item does not fail; its record is committed with
\* retrieved set and with the text of the single <pre> region as markup when
\* exactly one exists, null when none or several exist.
C25_WrapperUnwrapped ==
    [][StepWrapped =>
          /\ StepCommitted \/ lastFailStep' = "commit"
          /\ StepCommitted =>
                /\ StepRow.retrieved = clock
                /\ StepRow.transcript_markup =
                      (IF Len(StepPage.pres) = 1 THEN StepPage.pres[1] ELSE Null)
       ]_vars

\* C25 amended: a wrapped item does not fail (unless the commit itself does);
\* its record is committed with retrieved set, and with the text of the
\* single <pre> region as markup when the dialect is sgml and exactly one
\* region exists; the markup is null when none or several exist and whenever
\* the dialect is xml.
C25_WrapperUnwrappedForLegacy ==
    [][StepWrapped =>
          /\ StepCommitted \/ lastFailStep' = "commit"
          /\ StepCommitted =>
                /\ StepRow.retrieved = clock
                /\ StepRow.retrieved > hansard_transcript[StepUrl].retrieved
                /\ StepRow.transcript_markup =
                      (IF StepDialect = "sgml" /\ Len(StepPage.pres) = 1
                       THEN StepPage.pres[1] ELSE Null)
       ]_vars

\* a run that committed a legacy item from its single <pre> region, a legacy
\* item with two regions and an xml item with one region, both with null
\* markup
C25_Witness ==
    /\ \E k \in DOMAIN fetchLog :
          LET u == fetchLog[k]
              page == PageOf(u, siteShift)
          IN  /\ outcomes[k] = "ok"
              /\ page.source \in HtmlSources /\ Len(page.pres) = 1
              /\ hansard_transcript[u].transcript_markup_type = "sgml"
              /\ hansard_transcript[u].transcript_markup = page.pres[1]
    /\ \E k \in DOMAIN fetchLog :
          LET u == fetchLog[k]
              page == PageOf(u, siteShift)
          IN  /\ outcomes[k] = "ok"
              /\ page.source \in HtmlSources /\ Len(page.pres) = 2
              /\ hansard_transcript[u].transcript_markup = Null
              /\ hansard_transcript[u].retrieved > hansard_transcript[u].lastmod
    /\ \E k \in DOMAIN fetchLog :
          LET u == fetchLog[k]
              page == PageOf(u, siteShift)
          IN  /\ outcomes[k] = "ok"
              /\ page.source \in HtmlSources /\ Len(page.pres) = 1
              /\ hansard_transcript[u].transcript_markup_type = "xml"
              /\ hansard_transcript[u].transcript_markup = Null

(***************************************************************************)
(* Properties of candidate identification (SpecIdent).                     *)
(***************************************************************************)
\* a step of identify_transcripts_to_retrieve that committed
IdentifyStep == identPc = "discovery" /\ identPc' = "identified"

\* a step of the retrieval worker
RetrieveStep == identPc' = "retrieved"

\* the urls of first pages of a day the sitemap table lists
FirstPages ==
    {u \in PossibleTranscripts(sitemap) : ~QueryRaises(u) /\ PageNo(u) = "0000"}

\* the records the step adds are the new first pages of the sitemap table,
\* each with the sentinel as retrieved date, the lastmod of the index and
\* NULL in every other column
CreatesFirstPages ==
    /\ DOMAIN hansard_transcript' = DOMAIN hansard_transcript \cup FirstPages
    /\ \A u \in DOMAIN hansard_transcript' \ DOMAIN hansard_transcript :
          hansard_transcript'[u] = NewRow(sitemap[u].lastmod)

\* C29 as stated: candidate identification creates the records of the first
\* pages it sees for the first time and changes no field of a record that
\* already exists; no step but one of the retrieval worker changes a record.
C29_OnlyRetrievalUpdates ==
    [][/\ IdentifyStep =>
             /\ CreatesFirstPages
             /\ \A u \in DOMAIN hansard_transcript :
                   hansard_transcript'[u] = hansard_transcript[u]
       /\ ~IdentifyStep /\ ~RetrieveStep => hansard_transcript' = hansard_transcript
      ]_vars

\* C29 amended: candidate identification creates the records of the first
\* pages it sees for the first time and, of a record that already exists,
\* changes lastmod only (to the lastmod of the index when the index lists the
\* url as a first page): retrieved, the reference page, the links, the
\* dialect and the markup survive; no step but one of the retrieval worker
\* changes anything else.
C29_IdentificationUpdatesLastmodOnly ==
    [][/\ IdentifyStep =>
             /\ CreatesFirstPages
             /\ \A u \in DOMAIN hansard_transcript :
                   /\ hansard_transcript'[u] =
                         [hansard_transcript[u] EXCEPT
                             !.lastmod = hansard_transcript'[u].lastmod]
                   /\ hansard_transcript'[u].lastmod =
                         (IF u \in FirstPages THEN sitemap[u].lastmod
                          ELSE hansard_transcript[u].lastmod)
       /\ ~IdentifyStep /\ ~RetrieveStep => hansard_transcript' = hansard_transcript
      ]_vars

\* identification has run over a record that retrieval had filled: the
\* record has the later lastmod of the index and kept what retrieval wrote
C29_Witness ==
    /\ identPc = "identified"
    /\ \E u \in DOMAIN hansard_transcript :
          /\ hansard_transcript[u].retrieved > AncientRetrieved
          /\ hansard_transcript[u].lastmod = sitemap[u].lastmod
          /\ hansard_transcript[u].lastmod > hansard_transcript[u].retrieved
          /\ hansard_transcript[u].transcript_markup = "<hansard>A</hansard>"
    /\ \E u \in DOMAIN hansard_transcript :
          hansard_transcript[u] = NewRow(sitemap[u].lastmod)

\* C30: a record that candidate identification created and that has not been
\* fetched successfully yet (its retrieved date is still the sentinel) is
\* selected by the retrieval worker: retrieved < lastmod, whatever lastmod
\* the index reported.
C30_NewRecordEligible ==
    \A u \in DOMAIN hansard_transcript :
        hansard_transcript[u].retrieved = AncientRetrieved
            => u \in Stale(hansard_transcript)

(***************************************************************************)
(* Further properties of the normalization orchestrator (SpecOrch).        *)
(***************************************************************************)
\* the rows submitted to the pool so far
Dispatched == {i \in DOMAIN taskState : taskState[i] # "none"}

\* the rows whose task.result() the orchestrator has taken
Collected == Dispatched \ (tasks_in_flight \cup completed)

\* the run is between its "begin" and the end of the script, no exception raised
RunAlive == orchPc \in {"loop", "wait", "batch", "drain", "done"}

\* C31: whatever the order in which the workers complete, while no exception
\* ends the run every collected result has been inserted exactly once: the
\* session rows are those of the collected xml transcripts, one row each, no
\* session_id occurs in two rows, and session_id has advanced once per
\* collected result; when the run is done every dispatched transcript has
\* been collected, so every dispatched xml transcript has exactly one row.
C31_CollectedExactlyOnce ==
    RunAlive =>
        /\ {r.url : r \in processed_db.session} =
              {i \in Collected : transcripts[i].doc.type = "xml"}
        /\ \A r1, r2 \in processed_db.session :
              (r1.url = r2.url \/ r1.session_id = r2.session_id) => r1 = r2
        /\ session_id = Cardinality(Collected) + 1
        /\ \A r \in processed_db.session : r.session_id < session_id
        /\ orchPc = "done" =>
              /\ Collected = {i \in DOMAIN transcripts : ~transcripts[i].doc.ignored}
              /\ corpus = processed_db

\* a run is done that waited on a full set of futures and collected the
\* results out of dispatch order
C31_Witness ==
    /\ orchPc = "done"
    /\ Cardinality(Dispatched) > InFlightLimit
    /\ Cardinality(corpus.session) >= 3
    /\ \E r1, r2 \in corpus.session : r1.url < r2.url /\ r1.session_id > r2.session_id

\* no worker task of the batch ends with an exception
NoTaskRaises ==
    \A i \in DOMAIN transcripts : transcripts[i].doc.ignored \/ ~transcripts[i].doc.raises

\* the run has ended: nothing in flight, every dispatched transcript
\* collected, the sessions of the xml transcripts in the committed corpus
RunCommitted ==
    /\ orchPc = "done"
    /\ tasks_in_flight = {} /\ completed = {}
    /\ \A i \in DOMAIN transcripts :
          ~transcripts[i].doc.ignored =>
              /\ taskState[i] = "finished"
              /\ transcripts[i].doc.type = "xml" => \E r \in corpus.session : r.url = i
    /\ corpus = processed_db

DebateKeysSound(db) ==
    /\ \A d1, d2 \in db.debate : d1.debate_id = d2.debate_id => d1 = d2
    /\ \A p \in db.paragraph :
          \E d \in db.debate :
              d.debate_id = p.debate_id /\ d.session_id = p.session_id

\* C33: in every state of the corpus, as the running script sees it and as
\* committed, and whatever the order in which the workers complete,
\* debate_id is unique over all sessions and every paragraph's debate_id is
\* that of a debate row with the paragraph's session_id.
C33_DebateKeys == DebateKeysSound(processed_db) /\ DebateKeysSound(corpus)

\* a committed corpus of several sessions collected out of dispatch order,
\* with several debates in one session
C33_Witness ==
    /\ orchPc = "done"
    /\ \E s1, s2 \in corpus.session : s1.url < s2.url /\ s1.session_id > s2.session_id
    /\ \E d1, d2 \in corpus.debate :
          d1.session_id = d2.session_id /\ d1.debate_id # d2.debate_id
    /\ \E p1, p2 \in corpus.paragraph :
          p1.session_id # p2.session_id /\ p1.debate_id > p2.debate_id

(***************************************************************************)
(* Further properties of the discovery crawler (SpecDisc), continued.      *)
(***************************************************************************)
\* the shards of the index are ordered by recency: no entry of an older
\* shard is later than the latest entry of a newer shard
ShardsByRecency(index) ==
    \A i, j \in DOMAIN index :
        i < j => \A k \in DOMAIN index[i].entries :
                    \E m \in DOMAIN index[j].entries :
                        index[i].entries[k].lastmod <= index[j].entries[m].lastmod

\* the shard has an entry modified after the cutoff of the call
ChangedAfterCutoff(shard) ==
    \E k \in DOMAIN shard.entries : shard.entries[k].lastmod > reference_date

\* C34: the index being ordered by recency, when a refresh pass has completed
\* the loop has fetched every shard with an entry later than the cutoff, and
\* the sitemap table holds the lastmod the index reports for every entry
\* later than the cutoff; this holds also for a call that follows an
\* interrupted one.
C34_RefreshCoversChanges ==
    (discPc = "done" /\ ShardsByRecency(remote)) =>
        \A i \in DOMAIN remote :
            /\ ChangedAfterCutoff(remote[i]) =>
                  \E f \in DOMAIN refreshFetches : refreshFetches[f] = remote[i].name
            /\ \A k \in DOMAIN remote[i].entries :
                  LET e == remote[i].entries[k]
                  IN  e.lastmod > reference_date =>
                          /\ e.url \in DOMAIN sitemap
                          /\ sitemap[e.url].lastmod = e.lastmod
                          /\ sitemap[e.url].source_sitemap = remote[i].name

\* a refresh pass has completed after an interrupted call and brought a
\* lastmod later than the cutoff into a row the table already held, from a
\* shard that is not the newest
C34_Witness ==
    /\ discPc = "done"
    /\ before.pc = "crashed"
    /\ \E i \in DOMAIN remote :
          /\ i < Len(remote)
          /\ \E k \in DOMAIN remote[i].entries :
                LET e == remote[i].entries[k]
                IN  /\ e.lastmod > reference_date
                    /\ e.url \in DOMAIN before.sitemap
                    /\ before.sitemap[e.url].lastmod < e.lastmod
                    /\ sitemap[e.url].lastmod = e.lastmod

(***************************************************************************)
(* Further properties of candidate identification (SpecIdent).             *)
(***************************************************************************)
\* the records a successful fetch has filled
Fetched == {u \in DOMAIN hansard_transcript :
               hansard_transcript[u].retrieved > AncientRetrieved}

\* a fetched record leaves the retrieval worker's selection with the fetch
\* and comes back only when a strictly later lastmod is recorded for it
StaleOnlyByLaterLastmod ==
    /\ RetrieveStep =>
          \A u \in DOMAIN hansard_transcript :
              hansard_transcript'[u] # hansard_transcript[u]
                  => u \notin Stale(hansard_transcript')
    /\ \A u \in Fetched :
          (u \notin Stale(hansard_transcript) /\ u \in Stale(hansard_transcript'))
              => /\ hansard_transcript'[u].lastmod > hansard_transcript[u].lastmod
                 /\ hansard_transcript'[u].retrieved = hansard_transcript[u].retrieved

\* when identification has recorded an index entry that reports a change
\* made after the fetch of the record, the record is selected again
ChangeMakesStale ==
    IdentifyStep =>
        \A u \in Fetched :
            u \in changedSinceFetch => u \in Stale(hansard_transcript')

\* C35: a successfully fetched record is no longer stale and is not selected
\* again until a strictly later lastmod is recorded for it; and whenever the
\* remote document changed after the fetch and discovery observed the
\* change, the record is selected again.
C35_RefetchedWhenChanged == [][StaleOnlyByLaterLastmod /\ ChangeMakesStale]_vars

(***************************************************************************)
(* The corpus after a run that did not reach its commit (SpecOrch).        *)
(***************************************************************************)
\* C36: a run that aborts before its final commit leaves the corpus holding
\* the complete previous corpus or a complete new one, never a partial set
\* of sessions and never an emptied corpus.
C36_AbortKeepsCorpus ==
    orchPc = "crashed" => corpus = previousCorpus \/ corpus \in committedCorpora

====
